---- MODULE Spec2Model ----
(***************************************************************************)
(* Verification model of the KickWithReverb generative pipeline:           *)
(*   - DDIMSampler (inference/generate.py): timestep sub-sequence and the  *)
(*     reverse-diffusion loop with classifier-free guidance;               *)
(*   - denoiser training loop (training/train_diffusion.py): gradient      *)
(*     accumulation, EMA, checkpoints;                                     *)
(*   - vocoder training (training/train_vocoder.py): resume, the two       *)
(*     optimizer steps per batch, end-of-epoch checkpoints;                *)
(*   - parse_prompt (inference/generate.py);                               *)
(*   - prompt encoding by KeywordEncoder (models/text_encoder.py);         *)
(*   - generate() from the checkpoint loads to the written waveform;       *)
(*   - the start of the three training procedures on their datasets;       *)
(*   - NoiseScheduler as an object (pytorch/models/diffusion.py);          *)
(*   - tensor shapes through the codec, the U-Net, the vocoder and the     *)
(*     multi-scale discriminator;                                          *)
(*   - denoiser and vocoder checkpoints as inference loads them;           *)
(*   - vocoder training killed during the write of its checkpoint;         *)
(*   - the KL weight of each codec training epoch (training/config.py);    *)
(*   - pre_encode_latents run, killed and run again;                       *)
(*   - the post-processing of the deployed worker (modal/kick_worker.py).  *)
(*                                                                         *)
(* Real-valued tensors are modelled by one representative element in       *)
(* fixed-point arithmetic: the integer v stands for the real v / SCALE.    *)
(* Each part has its own specification (SpecSampler, SpecTimesteps,        *)
(* SpecDiffusion, SpecVocoder, SpecParse, SpecEncode, SpecGenerate,        *)
(* SpecStartup, SpecSchedule, SpecShapes, SpecDenoiserHandoff,             *)
(* SpecVocoderHandoff, SpecVocoderRestart, SpecAnneal, SpecPreEncode,      *)
(* SpecWorker; SpecDiffusionFair adds the fairness of the training         *)
(* process); the variables of the other parts stay at their idle values.   *)
(***************************************************************************)
EXTENDS Integers, Sequences, FiniteSets, TLC

VARIABLES
    \* ---- sampler (generate.py) ----
    scheduler,      \* NoiseScheduler object: timesteps, betas, alphas, alpha_bars
    unet,           \* weights of the noise-prediction network (LatentUNet)
    null_embedding, \* KeywordEncoder.null_embedding
    seed_noise,     \* value of torch.randn(shape) under the fixed seed
    sampler,        \* DDIMSampler object: status, num_steps, timesteps
    spc,            \* position inside DDIMSampler.sample
    call,           \* locals of the running sample() call
    evalLog,        \* model evaluations of the running call
    stepLog,        \* update steps of the running call
    results,        \* finished sample() calls, in call order
    \* ---- denoiser training (train_diffusion.py) ----
    dcfg,           \* DiffusionConfig, batches per loader pass, build_vocab's list
    dpc,            \* position inside train(): "loop" or "done"
    global_step,    \* micro-steps completed
    batch_idx,      \* batches consumed in the current pass over train_loader
    trainer,        \* model weights, gradients, optimizer, EMA shadow
    dckpts,         \* denoiser checkpoints written, in order
    \* ---- vocoder training (train_vocoder.py) ----
    vargs,          \* args: epochs, checkpoint_every, batches per epoch
    vpc,            \* position of the training process
    vdisk,          \* files in checkpoint_dir: latest, numbered, export
    vmem,           \* in-memory networks, optimizers, schedulers, loop counters
    vrun,           \* bookkeeping of the current run of train()
    \* ---- prompt parsing (generate.py) ----
    prompt,         \* the prompt text, a sequence of characters
    vocab,          \* the checkpoint's vocabulary, a list of words
    ppc,            \* "ready" before parse_prompt, "parsed" after
    token_ids,      \* the list parse_prompt returned
    \* ---- prompt encoding (generate.py, text_encoder.py) ----
    text_enc,       \* KeywordEncoder weights: embedding, proj, null_embedding
    gen_cond,       \* cond: conditioning vector handed to the sampler
    gen_uncond,     \* uncond: unconditioned vector handed to the sampler
    enc_log,        \* earlier generate() calls on the same encoder
    \* ---- generate() pipeline (generate.py) ----
    gargs,          \* arguments and checkpoint files of the generate() call
    gpc,            \* position inside generate()
    glog,           \* loads, denoising steps and network calls so far, in order
    glocals,        \* locals of generate(): the waveform at each stage
    \* ---- start of the three training procedures ----
    targs,          \* procedure name and the files its data directories hold
    tpc,            \* position inside train()
    tlog,           \* objects built and files written so far, in order
    \* ---- NoiseScheduler (models/diffusion.py) ----
    nargs,          \* constructor arguments timesteps, beta_start, beta_end
    npc,            \* "new" before the constructor, "built" or "raised" after
    nsched,         \* the constructed schedule object
    noised,         \* results of add_noise calls, in order
    \* ---- tensor shapes through the networks ----
    net_in,         \* network name and the spatial shape of its input
    net_pc,         \* "ready" before the forward pass, "done" or "raised" after
    net_trace,      \* shapes of the intermediate tensors, in order
    \* ---- checkpoint files handed from training to inference ----
    denoiser_load,  \* what generate() built from a denoiser checkpoint
    vocoder_load,   \* outcome of loading a vocoder checkpoint file
    \* ---- codec training epochs (train_autoencoder.py, config.py) ----
    kl_cfg,         \* AutoencoderConfig: epochs and the KL annealing fields
    kl_epoch,       \* the epoch the loop is about to run
    kl_log,         \* kl_weight of each epoch run so far
    \* ---- latent pre-encoding (train_diffusion.py) ----
    pe_disk,        \* the spectrogram files and the latent files on disk
    pe_pc,          \* position inside pre_encode_latents
    pe_log,         \* latent files written, in order, over all passes
    \* ---- deployed worker (modal/kick_worker.py) ----
    wk_in,          \* the waveform the vocoder returned
    wk_pc,          \* position inside generate_kick
    wk_out          \* the waveform after each step of generate_kick

samplerVars == <<scheduler, unet, null_embedding, seed_noise, sampler, spc, call,
                 evalLog, stepLog, results>>

diffusionVars == <<dcfg, dpc, global_step, batch_idx, trainer, dckpts>>

vocoderVars == <<vargs, vpc, vdisk, vmem, vrun>>

parseVars == <<prompt, vocab, ppc, token_ids>>

encodeVars == <<text_enc, gen_cond, gen_uncond, enc_log>>

generateVars == <<gargs, gpc, glog, glocals>>

startupVars == <<targs, tpc, tlog>>

scheduleVars == <<nargs, npc, nsched, noised>>

shapeVars == <<net_in, net_pc, net_trace>>

handoffVars == <<denoiser_load, vocoder_load>>

\* the stages around the training loops and generate(): checkpoint hand-off
annealVars == <<kl_cfg, kl_epoch, kl_log>>

preencodeVars == <<pe_disk, pe_pc, pe_log>>

workerVars == <<wk_in, wk_pc, wk_out>>

stageVars == <<handoffVars, annealVars, preencodeVars, workerVars>>

\* the parts added to the model after the sampler, the two training loops
\* and parse_prompt
pipelineVars == <<encodeVars, generateVars, startupVars, scheduleVars, shapeVars,
                  stageVars>>

vars == <<samplerVars, diffusionVars, vocoderVars, parseVars, pipelineVars>>

(***************************************************************************)
(* Bounds and fixed-point helpers                                          *)
(***************************************************************************)
\* fixed-point resolution: the integer v stands for v / SCALE
SCALE == 100
\* largest total timestep count T of a schedule the sampling loop is run on
MaxT == 4
\* largest total timestep count T a sampler is constructed for
MaxTotal == 12
\* largest gradient_accumulation
MaxAccum == 3
\* largest checkpoint_every (denoiser, in micro-steps)
MaxCkptEvery == 3
\* largest iterations (micro-steps of a denoiser training run)
MaxIter == 6
\* largest number of batches in one pass over the training loader
MaxBatches == 2
\* largest args.epochs of vocoder training
MaxEpochs == 3
\* largest args.checkpoint_every of vocoder training (in epochs)
MaxVCkptEvery == 2
\* largest number of batches in one vocoder epoch
MaxVBatches == 2
\* largest number of times the vocoder training process is started
MaxRuns == 2
\* largest length of an enumerated prompt, in characters
MaxPromptLen == 4

\* an absent optional argument; a present one is the one-element tuple <<v>>
None == <<>>

Min(a, b) == IF a < b THEN a ELSE b

\* sqrt of a fixed-point number in [0, 1], as a fixed-point number (Tensor.sqrt)
FxSqrt(a) ==
    CHOOSE r \in 0..SCALE : r * r <= a * SCALE /\ (r + 1) * (r + 1) > a * SCALE

\* product of two fixed-point numbers
FxMul(a, b) == (a * b) \div SCALE

\* quotient of two fixed-point numbers
FxDiv(a, b) == (a * SCALE) \div b


(***************************************************************************)
(* Idle values: the state of a part that a specification does not run      *)
(***************************************************************************)
IdleTrainer ==
    [w |-> 0, text_enc |-> 0, grad |-> 0, pending |-> {}, opt_steps |-> 0,
     w_after_step |-> <<>>, shadow |-> 0, ema_updates |-> 0, ema_src |-> <<>>,
     ops |-> <<>>]

IdleDiffusion ==
    /\ dcfg = [iterations |-> 0, gradient_accumulation |-> 1, checkpoint_every |-> 1,
               base_channels |-> 1, num_batches |-> 1, vocab |-> <<>>]
    /\ dpc = "idle"
    /\ global_step = 0
    /\ batch_idx = 0
    /\ trainer = IdleTrainer
    /\ dckpts = <<>>

\* freshly constructed generator, discriminators, optimizers and schedulers
FreshVocoder ==
    [generator |-> 0, mpd |-> 0, msd |-> 0, optim_g |-> 0, optim_d |-> 0,
     sched_g |-> 0, sched_d |-> 0, epoch |-> 0, batch |-> 0,
     grad_g |-> {}, grad_d |-> {}, applied_g |-> {}, applied_d |-> {},
     d_out |-> <<0, 0>>, g_saw |-> <<0, 0>>, ops |-> <<>>]

NoRun ==
    [number |-> 0, resumed |-> FALSE, from |-> <<>>, restored |-> {},
     train_steps |-> 0, sched_steps |-> 0, writes |-> 0]

IdleVocoder ==
    /\ vargs = [epochs |-> 0, checkpoint_every |-> 1, batches |-> 1]
    /\ vpc = "idle"
    /\ vdisk = [latest |-> <<>>, numbered |-> {}, export |-> <<>>]
    /\ vmem = FreshVocoder
    /\ vrun = NoRun

IdleParse ==
    /\ prompt = <<>>
    /\ vocab = <<>>
    /\ ppc = "idle"
    /\ token_ids = <<>>

IdleEncode ==
    /\ text_enc = [embedding |-> <<>>, proj |-> [w |-> 0, b |-> 0], null_embedding |-> 0]
    /\ gen_cond = <<>>
    /\ gen_uncond = <<>>
    /\ enc_log = <<>>

IdleGenerate ==
    /\ gargs = [diffusion_ok |-> TRUE, vae_ok |-> TRUE, vocoder |-> "none",
                ddim_steps |-> 0, raw |-> <<>>]
    /\ gpc = "idle"
    /\ glog = <<>>
    /\ glocals = [waveform |-> <<>>, trimmed |-> <<>>, normalized |-> <<>>,
                  faded |-> <<>>, divisions |-> 0]

IdleStartup ==
    /\ targs = [procedure |-> "none", files |-> 0, latents |-> 0, sampler_check |-> TRUE]
    /\ tpc = "idle"
    /\ tlog = <<>>

IdleSchedule ==
    /\ nargs = [timesteps |-> 0, beta_start |-> 0, beta_end |-> 0]
    /\ npc = "idle"
    /\ nsched = [timesteps |-> 0, betas |-> <<>>, alphas |-> <<>>, alpha_bars |-> <<>>]
    /\ noised = <<>>

IdleShapes ==
    /\ net_in = [net |-> "none", h |-> 0, w |-> 0]
    /\ net_pc = "idle"
    /\ net_trace = <<>>

\* nothing loaded yet
NotLoaded == [status |-> "none"]

IdleHandoff ==
    /\ denoiser_load = NotLoaded
    /\ vocoder_load = NotLoaded

IdleAnneal ==
    /\ kl_cfg = [epochs |-> 0, kl_weight_start |-> 0, kl_weight_end |-> 0,
                 kl_anneal_epochs |-> 0]
    /\ kl_epoch = -1
    /\ kl_log = <<>>

IdlePreEncode ==
    /\ pe_disk = [mels |-> 0, latents |-> {}]
    /\ pe_pc = [at |-> "idle", next |-> 0]
    /\ pe_log = <<>>

IdleWorker ==
    /\ wk_in = <<>>
    /\ wk_pc = "idle"
    /\ wk_out = <<>>

IdleStages ==
    /\ IdleHandoff
    /\ IdleAnneal
    /\ IdlePreEncode
    /\ IdleWorker

IdlePipeline ==
    /\ IdleEncode
    /\ IdleGenerate
    /\ IdleStartup
    /\ IdleSchedule
    /\ IdleShapes
    /\ IdleStages

IdleCall ==
    [cond |-> 0, uncond |-> None, cfg_scale |-> 0, x |-> 0, i |-> 0,
     noise_cond |-> 0, noise_uncond |-> 0, noise_pred |-> 0]

IdleSampler ==
    /\ scheduler = [timesteps |-> 0, betas |-> <<>>, alphas |-> <<>>, alpha_bars |-> <<>>]
    /\ unet = [wx |-> 0, wt |-> 0, wc |-> 0]
    /\ null_embedding = 0
    /\ seed_noise = 0
    /\ sampler = [status |-> "none", num_steps |-> 0, timesteps |-> <<>>]
    /\ spc = "idle"
    /\ call = IdleCall
    /\ evalLog = <<>>
    /\ stepLog = <<>>
    /\ results = <<>>

(***************************************************************************)
(* NoiseScheduler.__init__  (models/diffusion.py)                          *)
(***************************************************************************)
\* torch.linspace(start, end, steps)
Linspace(start, end, steps) ==
    [k \in 1..steps |->
        IF steps = 1 THEN start
        ELSE start + ((k - 1) * (end - start)) \div (steps - 1)]

\* torch.cumprod(s, dim=0)
RECURSIVE CumProdAt(_, _)
CumProdAt(s, k) == IF k = 1 THEN s[1] ELSE FxMul(CumProdAt(s, k - 1), s[k])

\* exclusive running product: entry k leaves out factor k
CumProd_exclusive(s) == [k \in 1..Len(s) |-> IF k = 1 THEN SCALE ELSE CumProdAt(s, k - 1)]

CumProd(s) == [k \in 1..Len(s) |-> CumProdAt(s, k)]

\* the schedule object; tables are 1-based here, timestep t is entry t + 1
NoiseScheduler(timesteps, beta_start, beta_end) ==
    LET betas == Linspace(beta_start, beta_end, timesteps)
        alphas == [k \in 1..timesteps |-> SCALE - betas[k]]
    IN  [timesteps |-> timesteps, betas |-> betas, alphas |-> alphas,
         alpha_bars |-> CumProd(alphas)]

\* alpha_bars[t] for a 0-based timestep t
AlphaBar(sch, t) == sch.alpha_bars[t + 1]

(***************************************************************************)
(* DDIMSampler.__init__  (inference/generate.py)                           *)
(***************************************************************************)
\* list(range(start, stop, -step)) for step > 0
PyRangeDown(start, stop, step) ==
    LET n == IF start > stop THEN ((start - stop - 1) \div step) + 1 ELSE 0
    IN  [k \in 1..n |-> start - (k - 1) * step]

\* no truncation to n entries
PySliceTo_keepall(s, n) == s

\* s[:n] for n >= 0
PySliceTo(s, n) == SubSeq(s, 1, Min(n, Len(s)))

\* stride rounded up instead of down
BuildTimesteps_ceil(total, num_steps) ==
    LET step_size == (total + num_steps - 1) \div num_steps
    IN  PySliceTo(PyRangeDown(total - 1, -1, step_size), num_steps)

\* the timestep sub-sequence of the sampler
BuildTimesteps(total, num_steps) ==
    LET step_size == total \div num_steps
    IN  PySliceTo(PyRangeDown(total - 1, -1, step_size), num_steps)

\* the sampler object; range() raises ValueError for a zero step
DDIMSamplerInit(sch, num_steps) ==
    IF sch.timesteps \div num_steps = 0
    THEN [status |-> "error", num_steps |-> num_steps, timesteps |-> <<>>]
    ELSE [status |-> "ok", num_steps |-> num_steps,
          timesteps |-> BuildTimesteps(sch.timesteps, num_steps)]

(***************************************************************************)
(* LatentUNet.forward, as used by the sampler: a deterministic function of *)
(* the noisy latent, the timestep and the conditioning vector, fixed by    *)
(* the loaded weights.                                                     *)
(***************************************************************************)
UNetWeights ==
    { [wx |-> SCALE \div 2, wt |-> 3, wc |-> SCALE],
      [wx |-> -(SCALE \div 4), wt |-> 0, wc |-> 2 * SCALE] }

UNetForward(w, x, t, c) == FxMul(w.wx, x) + w.wt * t + FxMul(w.wc, c)

\* values a conditioning vector (and the learned null vector) may take
EmbedValues == { -(SCALE \div 4), SCALE \div 2 }

\* guidance scales: 0.5, exactly 1.0, and the default 3.0
CfgScales == { SCALE \div 2, SCALE, 3 * SCALE }

\* initial noise values
NoiseValues == { -SCALE, SCALE \div 2 }

\* (beta_start, beta_end) of the schedule
BetaRange == <<SCALE \div 20, SCALE \div 4>>

(***************************************************************************)
(* DDIMSampler.sample  (inference/generate.py)                             *)
(***************************************************************************)
\* guidance also at scale exactly 1.0
UseGuidance_ge(uncond, cfg_scale) == uncond # None /\ cfg_scale >= SCALE

\* the guard of the classifier-free-guidance branch
UseGuidance(uncond, cfg_scale) == uncond # None /\ cfg_scale > SCALE

\* noise_uncond + cfg_scale * (noise_cond - noise_uncond)
GuidedNoise(noise_cond, noise_uncond, cfg_scale) ==
    noise_uncond + FxMul(cfg_scale, noise_cond - noise_uncond)

\* the last step targets the first table entry instead of 1
AlphaBarPrev_t0(sch, timesteps, i) ==
    IF i + 1 <= Len(timesteps) THEN AlphaBar(sch, timesteps[i + 1]) ELSE AlphaBar(sch, 0)

\* alpha_bar_prev of loop index i (1-based)
AlphaBarPrev(sch, timesteps, i) ==
    IF i + 1 <= Len(timesteps) THEN AlphaBar(sch, timesteps[i + 1]) ELSE SCALE

\* predicted x_0
X0Pred(x, alpha_bar_t, noise_pred) ==
    FxDiv(x - FxMul(FxSqrt(SCALE - alpha_bar_t), noise_pred), FxSqrt(alpha_bar_t))

\* the deterministic DDIM step (eta = 0)
DDIMUpdate(x, alpha_bar_t, alpha_bar_prev, noise_pred) ==
    LET x0_pred == X0Pred(x, alpha_bar_t, noise_pred)
        dir_xt == FxMul(FxSqrt(SCALE - alpha_bar_prev), noise_pred)
    IN  FxMul(FxSqrt(alpha_bar_prev), x0_pred) + dir_xt

\* the second pass reads a state already moved by the first prediction
UncondInput_moved(c) == c.x - c.noise_cond

\* x the second forward pass of a guided step reads
UncondInput(c) == c.x

\* the first pass conditioned on the null vector whenever one is given
FirstPassVector_null(c) == IF c.uncond # None THEN c.uncond[1] ELSE c.cond

\* conditioning vector of the first (or only) forward pass of a step
FirstPassVector(c) == c.cond

\* DDIMSampler(scheduler, num_steps)
Construct(n) ==
    /\ sampler.status = "none"
    /\ sampler' = DDIMSamplerInit(scheduler, n)
    /\ UNCHANGED <<diffusionVars, vocoderVars, parseVars, pipelineVars>>
    /\ UNCHANGED <<scheduler, unet, null_embedding, seed_noise, spc, call,
                   evalLog, stepLog, results>>

\* sample(): x = torch.randn(shape) under the fixed seed, loop entered
SampleBegin(cond, uncond, cfg_scale) ==
    /\ sampler.status = "ok"
    /\ spc = "idle"
    /\ Len(results) < 2
    /\ call' = [IdleCall EXCEPT !.cond = cond, !.uncond = uncond,
                                !.cfg_scale = cfg_scale, !.x = seed_noise, !.i = 1]
    /\ spc' = IF Len(sampler.timesteps) = 0 THEN "return" ELSE "predict"
    /\ evalLog' = <<>>
    /\ stepLog' = <<>>
    /\ UNCHANGED <<diffusionVars, vocoderVars, parseVars, pipelineVars>>
    /\ UNCHANGED <<scheduler, unet, null_embedding, seed_noise, sampler, results>>

\* first (or only) forward pass of a step: model(x, t_batch, cond)
PredictCond ==
    /\ spc = "predict"
    /\ LET t == sampler.timesteps[call.i]
           out == UNetForward(unet, call.x, t, FirstPassVector(call))
       IN  /\ evalLog' = Append(evalLog,
                 [i |-> call.i, t |-> t, x |-> call.x, role |-> "cond"])
           /\ IF UseGuidance(call.uncond, call.cfg_scale)
              THEN /\ call' = [call EXCEPT !.noise_cond = out]
                   /\ spc' = "predict_uncond"
              ELSE /\ call' = [call EXCEPT !.noise_pred = out]
                   /\ spc' = "update"
    /\ UNCHANGED <<diffusionVars, vocoderVars, parseVars, pipelineVars>>
    /\ UNCHANGED <<scheduler, unet, null_embedding, seed_noise, sampler, stepLog,
                   results>>

\* second forward pass of a guided step and the guidance combination
PredictUncond ==
    /\ spc = "predict_uncond"
    /\ LET t == sampler.timesteps[call.i]
           xin == UncondInput(call)
           out == UNetForward(unet, xin, t, call.uncond[1])
       IN  /\ evalLog' = Append(evalLog,
                 [i |-> call.i, t |-> t, x |-> xin, role |-> "uncond"])
           /\ call' = [call EXCEPT
                 !.noise_uncond = out,
                 !.noise_pred = GuidedNoise(call.noise_cond, out, call.cfg_scale)]
    /\ spc' = "update"
    /\ UNCHANGED <<diffusionVars, vocoderVars, parseVars, pipelineVars>>
    /\ UNCHANGED <<scheduler, unet, null_embedding, seed_noise, sampler, stepLog,
                   results>>

\* the DDIM update of a step
Update ==
    /\ spc = "update"
    /\ LET t == sampler.timesteps[call.i]
           alpha_bar_t == AlphaBar(scheduler, t)
           alpha_bar_prev == AlphaBarPrev(scheduler, sampler.timesteps, call.i)
           xn == DDIMUpdate(call.x, alpha_bar_t, alpha_bar_prev, call.noise_pred)
       IN  /\ stepLog' = Append(stepLog,
                 [t |-> t, x_in |-> call.x, noise_pred |-> call.noise_pred,
                  alpha_bar_prev |-> alpha_bar_prev,
                  x0_pred |-> X0Pred(call.x, alpha_bar_t, call.noise_pred),
                  x_out |-> xn])
           /\ call' = [call EXCEPT !.x = xn, !.i = call.i + 1]
           /\ spc' = IF call.i + 1 <= Len(sampler.timesteps) THEN "predict" ELSE "return"
    /\ UNCHANGED <<diffusionVars, vocoderVars, parseVars, pipelineVars>>
    /\ UNCHANGED <<scheduler, unet, null_embedding, seed_noise, sampler, evalLog,
                   results>>

\* return x
Return ==
    /\ spc = "return"
    /\ results' = Append(results,
          [cond |-> call.cond, uncond |-> call.uncond, cfg_scale |-> call.cfg_scale,
           out |-> call.x, evals |-> evalLog, steps |-> stepLog])
    /\ spc' = "idle"
    /\ UNCHANGED <<diffusionVars, vocoderVars, parseVars, pipelineVars>>
    /\ UNCHANGED <<scheduler, unet, null_embedding, seed_noise, sampler, call,
                   evalLog, stepLog>>

InitSampler ==
    /\ \E T \in 1..MaxT : scheduler = NoiseScheduler(T, BetaRange[1], BetaRange[2])
    /\ unet \in UNetWeights
    /\ null_embedding \in EmbedValues
    /\ seed_noise \in NoiseValues
    /\ sampler = [status |-> "none", num_steps |-> 0, timesteps |-> <<>>]
    /\ spc = "idle"
    /\ call = IdleCall
    /\ evalLog = <<>>
    /\ stepLog = <<>>
    /\ results = <<>>
    /\ IdleDiffusion
    /\ IdleVocoder
    /\ IdleParse
    /\ IdlePipeline

NextSampler ==
    \/ \E n \in 1..(MaxT + 1) : Construct(n)
    \/ \E cond \in EmbedValues, cfg_scale \in CfgScales :
          \E uncond \in {None, <<null_embedding>>} : SampleBegin(cond, uncond, cfg_scale)
    \/ PredictCond
    \/ PredictUncond
    \/ Update
    \/ Return

SpecSampler == InitSampler /\ [][NextSampler]_vars

\* Construction of the sampler alone, over a wider range of (T, num_steps)
InitTimesteps ==
    /\ \E T \in 1..MaxTotal : scheduler = NoiseScheduler(T, BetaRange[1], BetaRange[2])
    /\ unet = [wx |-> 0, wt |-> 0, wc |-> 0]
    /\ null_embedding = 0
    /\ seed_noise = 0
    /\ sampler = [status |-> "none", num_steps |-> 0, timesteps |-> <<>>]
    /\ spc = "idle"
    /\ call = IdleCall
    /\ evalLog = <<>>
    /\ stepLog = <<>>
    /\ results = <<>>
    /\ IdleDiffusion
    /\ IdleVocoder
    /\ IdleParse
    /\ IdlePipeline

NextTimesteps == \E n \in 1..(MaxTotal + 1) : Construct(n)

SpecTimesteps == InitTimesteps /\ [][NextTimesteps]_vars

(***************************************************************************)
(* Properties of the sampler                                               *)
(***************************************************************************)
\* finished calls, and the running one as far as it got
SamplerRuns ==
    {[cond |-> r.cond, uncond |-> r.uncond, cfg_scale |-> r.cfg_scale,
      evals |-> r.evals, steps |-> r.steps, finished |-> TRUE, out |-> r.out]
        : r \in {results[k] : k \in 1..Len(results)}}
    \cup (IF spc = "idle" THEN {}
          ELSE {[cond |-> call.cond, uncond |-> call.uncond,
                 cfg_scale |-> call.cfg_scale, evals |-> evalLog, steps |-> stepLog,
                 finished |-> FALSE, out |-> call.x]})

FinishedRuns == {r \in SamplerRuns : r.finished}

\* a run that uses at every step only the model's prediction for vector c
RECURSIVE SingleVectorSample(_, _, _)
SingleVectorSample(x, i, c) ==
    IF i > Len(sampler.timesteps) THEN x
    ELSE LET t == sampler.timesteps[i]
         IN  SingleVectorSample(
                 DDIMUpdate(x, AlphaBar(scheduler, t),
                            AlphaBarPrev(scheduler, sampler.timesteps, i),
                            UNetForward(unet, x, t, c)),
                 i + 1, c)

\* C1: a call with a null vector and cfg_scale exactly 1.0 returns the same
\* latent as a call with uncond=None on the same noise, model and conditioning
\* vector, and neither call ever evaluates the model on the null vector.
C1_ScaleOneEqualsNoUncond ==
    \A a, b \in FinishedRuns :
        (a.cond = b.cond /\ a.uncond # None /\ a.cfg_scale = SCALE /\ b.uncond = None)
        => /\ a.out = b.out
           /\ \A r \in {a, b} :
                 /\ Len(r.evals) = Len(r.steps)
                 /\ \A k \in 1..Len(r.evals) : r.evals[k].role = "cond"

C1_Witness ==
    /\ Len(results) = 2
    /\ results[1].cond = results[2].cond
    /\ results[1].cond # null_embedding
    /\ results[1].uncond # None /\ results[1].cfg_scale = SCALE
    /\ results[2].uncond = None
    /\ unet.wc # 0
    /\ Len(results[1].steps) >= 2

\* C2 (as amended): with guidance scale exactly 1, or with the null vector
\* omitted, the output equals conditioned-prediction-only sampling: the run that
\* from the same initial noise uses at every step only the model's prediction
\* for the conditioning vector.
C2_ScaleOneIsCondOnly ==
    \A r \in FinishedRuns :
        (r.cfg_scale = SCALE \/ r.uncond = None)
        => r.out = SingleVectorSample(seed_noise, 1, r.cond)

\* C2 (as stated): with guidance scale exactly 1, or with the null vector
\* omitted, the output equals the run that uses at every step only the model's
\* prediction for the null (unconditioned) vector.
C2_ScaleOneIsUncondOnly ==
    \A r \in FinishedRuns :
        (r.cfg_scale = SCALE \/ r.uncond = None)
        => r.out = SingleVectorSample(seed_noise, 1, null_embedding)

C2_Witness ==
    \E r \in FinishedRuns :
        /\ r.cfg_scale = SCALE /\ r.uncond # None
        /\ r.cond # null_embedding
        /\ Len(r.steps) >= 2
        /\ r.out # SingleVectorSample(seed_noise, 1, null_embedding)

\* C3: for 1 <= n <= T the sampler is built, and its timestep list has exactly
\* n entries, starts at T-1, is strictly descending, lies in 0..T-1, and has
\* consecutive entries exactly T div n apart.
C3_TimestepList ==
    LET T == scheduler.timesteps
        n == sampler.num_steps
        ts == sampler.timesteps
    IN  (sampler.status # "none" /\ n <= T)
        => /\ sampler.status = "ok"
           /\ Len(ts) = n
           /\ ts[1] = T - 1
           /\ \A k \in 1..n : ts[k] \in 0..(T - 1)
           /\ \A k \in 1..(n - 1) :
                 /\ ts[k] > ts[k + 1]
                 /\ ts[k] - ts[k + 1] = T \div n

C3_Witness ==
    /\ sampler.status = "ok"
    /\ sampler.num_steps >= 2
    /\ scheduler.timesteps % sampler.num_steps # 0
    /\ Len(sampler.timesteps) = sampler.num_steps

\* C4 (as amended): the last selected timestep is stride - 1 + (T mod n) with
\* stride = T div n; it is smaller than the stride exactly when n divides T,
\* otherwise the cut to n entries drops the end of the stride progression.
C4_LastTimestep ==
    LET T == scheduler.timesteps
        n == sampler.num_steps
        ts == sampler.timesteps
    IN  sampler.status = "ok"
        => /\ ts[Len(ts)] = (T \div n) - 1 + (T % n)
           /\ (ts[Len(ts)] < T \div n) <=> (T % n = 0)

\* C4 (as stated): the last selected timestep is always smaller than the stride.
C4_LastBelowStride ==
    sampler.status = "ok"
    => sampler.timesteps[Len(sampler.timesteps)]
          < scheduler.timesteps \div sampler.num_steps

C4_Witness ==
    /\ sampler.status = "ok"
    /\ scheduler.timesteps % sampler.num_steps # 0
    /\ sampler.timesteps[Len(sampler.timesteps)]
          >= scheduler.timesteps \div sampler.num_steps

\* the update steps of a run are taken in schedule order, each on the output of
\* the one before, with alpha_bar_prev the next scheduled entry or 1 at the end
StepsChained(r) ==
    LET ts == sampler.timesteps
    IN  /\ Len(r.steps) <= Len(ts)
        /\ \A k \in 1..Len(r.steps) :
              /\ r.steps[k].t = ts[k]
              /\ r.steps[k].x_in = (IF k = 1 THEN seed_noise ELSE r.steps[k - 1].x_out)
              /\ r.steps[k].alpha_bar_prev =
                    (IF k < Len(ts) THEN scheduler.alpha_bars[ts[k + 1] + 1] ELSE SCALE)

\* C5: sample performs exactly len(timesteps) update steps in schedule order,
\* each on the previous step's output; alpha_bar_prev is the cumulative alpha of
\* the next scheduled timestep, and 1 at the last step, so the returned latent
\* is the last step's x0 estimate.
C5_SequentialSteps ==
    \A r \in SamplerRuns :
        /\ StepsChained(r)
        /\ r.finished
           => /\ Len(r.steps) = Len(sampler.timesteps)
              /\ r.steps[Len(r.steps)].alpha_bar_prev = SCALE
              /\ r.out = r.steps[Len(r.steps)].x0_pred

C5_Witness ==
    \E r \in FinishedRuns :
        /\ Len(r.steps) >= 3
        /\ r.steps[Len(r.steps)].noise_pred # 0
        /\ r.steps[1].x_out # r.steps[1].x0_pred

\* evaluations of run r made in step k, in the order they were made
EvalsOfStep(r, k) == SelectSeq(r.evals, LAMBDA e : e.i = k)

\* C6: in a guided step (null vector given, cfg_scale > 1) the conditioned and
\* the unconditioned prediction are both computed from the step's input state
\* and timestep, the combined noise is a function of these two independent
\* predictions alone, and x changes only in the update; every other step
\* evaluates the model exactly once, on the conditioned vector.
C6_GuidedStepIndependence ==
    \A r \in SamplerRuns :
        /\ \A e \in {r.evals[j] : j \in 1..Len(r.evals)} :
              /\ e.t = sampler.timesteps[e.i]
              /\ e.x = (IF e.i = 1 THEN seed_noise ELSE r.steps[e.i - 1].x_out)
        /\ \A k \in 1..Len(r.steps) :
              LET es == EvalsOfStep(r, k)
                  st == r.steps[k]
                  nc == UNetForward(unet, st.x_in, st.t, r.cond)
              IN  IF r.uncond # None /\ r.cfg_scale > SCALE
                  THEN /\ Len(es) = 2
                       /\ es[1].role = "cond" /\ es[2].role = "uncond"
                       /\ st.noise_pred =
                             GuidedNoise(nc, UNetForward(unet, st.x_in, st.t, r.uncond[1]),
                                         r.cfg_scale)
                  ELSE /\ Len(es) = 1
                       /\ es[1].role = "cond"
                       /\ st.noise_pred = nc

C6_Witness ==
    \E r \in FinishedRuns :
        /\ r.uncond # None /\ r.cfg_scale > SCALE
        /\ r.cond # r.uncond[1]
        /\ Len(r.steps) >= 2
        /\ unet.wx # 0 /\ unet.wc # 0
        /\ r.steps[1].noise_pred # UNetForward(unet, seed_noise, r.steps[1].t, r.cond)

(***************************************************************************)
(* Denoiser training loop: train()  (training/train_diffusion.py)          *)
(*                                                                         *)
(* trainer.pending is the set of micro-steps whose gradients sit in .grad  *)
(* and have not been applied; w_after_step lists the weights after each    *)
(* optimizer step and ema_src the weights each EMA update averaged in.     *)
(***************************************************************************)
\* gradients one backward pass may add (already divided by the accumulation factor)
GradValues == { -(SCALE \div 10), SCALE \div 5 }

\* cfg.ema_decay
EmaDecay == (9 * SCALE) \div 10

\* the state right after EMA(model, decay) and the optimizer are constructed
NewTrainer(w0) == [IdleTrainer EXCEPT !.w = w0, !.shadow = w0, !.text_enc = w0 \div 2]

\* scaler.scale(loss).backward() of micro-step k: gradients accumulate
Backward(tr, g, k) ==
    [tr EXCEPT !.grad = tr.grad + g, !.pending = tr.pending \cup {k},
               !.ops = <<"backward">>]

\* optimizer step on every micro-step
AccumulationComplete_always(step, n) == TRUE

\* (global_step + 1) % cfg.gradient_accumulation == 0
AccumulationComplete(step, n) == (step + 1) % n = 0

\* scaler.step(optimizer); scaler.update(): the optimizer holds the parameters
\* of the model and of the conditioning encoder
ScalerStep(tr) ==
    [tr EXCEPT !.w = tr.w - tr.grad, !.text_enc = tr.text_enc - tr.grad,
               !.opt_steps = tr.opt_steps + 1,
               !.w_after_step = Append(tr.w_after_step, tr.w - tr.grad),
               !.ops = tr.ops \o <<"optimizer.step", "scaler.update">>]

\* optimizer.zero_grad()
ZeroGrad(tr) ==
    [tr EXCEPT !.grad = 0, !.pending = {}, !.ops = Append(tr.ops, "zero_grad")]

\* EMA.update(model): shadow = decay * shadow + (1 - decay) * param
EmaUpdate(tr) ==
    [tr EXCEPT !.shadow = FxMul(EmaDecay, tr.shadow) + FxMul(SCALE - EmaDecay, tr.w),
               !.ema_updates = tr.ema_updates + 1,
               !.ema_src = Append(tr.ema_src, tr.w),
               !.ops = Append(tr.ops, "ema.update")]

\* the EMA shadow averaged in before the optimizer step
StepAndEma_emafirst(tr) == ZeroGrad(ScalerStep(EmaUpdate(tr)))

\* the body of `if (global_step + 1) % cfg.gradient_accumulation == 0`
StepAndEma(tr) == EmaUpdate(ZeroGrad(ScalerStep(tr)))

\* backward, then the optimizer/EMA block when the accumulation group is complete
TrainBody(tr, g, step, n) ==
    LET b == Backward(tr, g, step)
    IN  IF AccumulationComplete(step, n) THEN StepAndEma(b) ELSE b

\* the checkpoint test on the count before the current micro-step
CheckpointDue_before(step, every) == step > 0 /\ step % every = 0

\* (global_step + 1) % cfg.checkpoint_every == 0
CheckpointDue(step, every) == (step + 1) % every = 0

\* build_vocab(cfg.metadata_csv): a sorted list of keywords
TrainVocab == << <<"h", "i", "t">>, <<"s", "u", "b">> >>

\* the fields of DiffusionConfig that the model keeps
ConfigFields == {"iterations", "gradient_accumulation", "checkpoint_every",
                 "base_channels"}

\* the dict handed to torch.save
DiffusionCheckpoint(tr, step, cfg) ==
    [step |-> step + 1, model_state_dict |-> tr.w, ema_state_dict |-> tr.shadow,
     text_enc_state_dict |-> tr.text_enc, optimizer_state_dict |-> tr.opt_steps,
     vocab |-> cfg.vocab, config |-> [f \in ConfigFields |-> cfg[f]]]

\* a written file, with the micro-steps whose gradients sat in .grad when it
\* was written (the file does not hold them)
SavedCheckpoint(tr, step, cfg) ==
    [file |-> DiffusionCheckpoint(tr, step, cfg), grad_pending |-> tr.pending]

\* one micro-step more than cfg.iterations
LoopContinues_inclusive(step, cfg) == step <= cfg.iterations

\* `while global_step < cfg.iterations`, and the negation of the break test
\* `if global_step >= cfg.iterations` at the head of the for body
LoopContinues(step, cfg) == step < cfg.iterations

\* one iteration of the inner for loop: lines 224-307
MicroStep(g) ==
    /\ dpc = "loop"
    /\ LoopContinues(global_step, dcfg)
    /\ LET tr == TrainBody(trainer, g, global_step, dcfg.gradient_accumulation)
       IN  /\ trainer' = tr
           /\ dckpts' = IF CheckpointDue(global_step, dcfg.checkpoint_every)
                        THEN Append(dckpts, SavedCheckpoint(tr, global_step, dcfg))
                        ELSE dckpts
    /\ global_step' = global_step + 1
    /\ batch_idx' = (batch_idx + 1) % dcfg.num_batches
    /\ UNCHANGED <<dcfg, dpc>>
    /\ UNCHANGED <<samplerVars, vocoderVars, parseVars, pipelineVars>>

\* the while condition fails (directly, or after the break): writer.close()
FinishTraining ==
    /\ dpc = "loop"
    /\ ~LoopContinues(global_step, dcfg)
    /\ dpc' = "done"
    /\ UNCHANGED <<dcfg, global_step, batch_idx, trainer, dckpts>>
    /\ UNCHANGED <<samplerVars, vocoderVars, parseVars, pipelineVars>>

InitDiffusion ==
    /\ \E it \in 0..MaxIter, n \in 1..MaxAccum, c \in 1..MaxCkptEvery,
          nb \in 1..MaxBatches :
          dcfg = [iterations |-> it, gradient_accumulation |-> n,
                  checkpoint_every |-> c, base_channels |-> 1, num_batches |-> nb,
                  vocab |-> TrainVocab]
    /\ dpc = "loop"
    /\ global_step = 0
    /\ batch_idx = 0
    /\ trainer = NewTrainer(SCALE)
    /\ dckpts = <<>>
    /\ IdleSampler
    /\ IdleVocoder
    /\ IdleParse
    /\ IdlePipeline

NextDiffusion ==
    \/ \E g \in GradValues : MicroStep(g)
    \/ FinishTraining

SpecDiffusion == InitDiffusion /\ [][NextDiffusion]_vars

\* train() is a single sequential process that is left to run: a step that
\* is possible is eventually taken
SpecDiffusionFair == SpecDiffusion /\ WF_vars(NextDiffusion)

(***************************************************************************)
(* Properties of denoiser training                                         *)
(***************************************************************************)
\* C7: the optimizer step is taken at micro-step g iff (g+1) mod N = 0; the EMA
\* shadow is updated in exactly those micro-steps, after the optimizer step (on
\* the stepped weights), and gradients are zeroed right after the step; after k
\* micro-steps, optimizer steps = EMA updates = floor(k / N).
C7_StepAndEmaEveryN ==
    LET n == dcfg.gradient_accumulation
        k == global_step
    IN  dpc # "idle"
        => /\ trainer.opt_steps = k \div n
           /\ trainer.ema_updates = k \div n
           /\ trainer.ema_src = trainer.w_after_step
           /\ trainer.pending = {j \in 0..(k - 1) : j >= (k \div n) * n}
           /\ k > 0
              => trainer.ops =
                    (IF k % n = 0
                     THEN <<"backward", "optimizer.step", "scaler.update", "zero_grad",
                            "ema.update">>
                     ELSE <<"backward">>)

C7_Witness ==
    /\ dcfg.gradient_accumulation = 2
    /\ global_step = 5
    /\ trainer.opt_steps = 2
    /\ trainer.ema_updates = 2
    /\ trainer.pending = {4}
    /\ trainer.w_after_step[1] # trainer.w_after_step[2]
    /\ trainer.shadow # trainer.w

\* the k-th checkpoint's step field is k * C, the micro-steps completed when
\* it was written
StepFieldCounts(k) ==
    /\ dckpts[k].file.step = k * dcfg.checkpoint_every
    /\ dckpts[k].file.step <= global_step

\* the saved state holds every micro-step the step field counts
AllStepsApplied(k) ==
    /\ dckpts[k].grad_pending = {}
    /\ dckpts[k].file.optimizer_state_dict * dcfg.gradient_accumulation
          = dckpts[k].file.step

\* C26 as stated: for every N >= 1 and C >= 1, when a denoiser checkpoint is
\* written no gradient of an incomplete accumulation group is pending, and the
\* step field is the number of micro-steps completed, a multiple of C.
C26_NoPendingAtCheckpoint ==
    \A k \in 1..Len(dckpts) : AllStepsApplied(k) /\ StepFieldCounts(k)

\* C26 amended: the same for every N >= 1 and every C >= 1 that is a multiple
\* of N; the step field is the number of micro-steps completed and a multiple
\* of C for every N and C.
C26_NoPendingWhenAligned ==
    \A k \in 1..Len(dckpts) :
        /\ StepFieldCounts(k)
        /\ dcfg.checkpoint_every % dcfg.gradient_accumulation = 0 => AllStepsApplied(k)

C26_Witness ==
    /\ dcfg.gradient_accumulation = 2
    /\ dcfg.checkpoint_every = 2
    /\ Len(dckpts) = 3
    /\ dckpts[3].file.optimizer_state_dict = 3
    /\ dckpts[3].grad_pending = {}
    /\ dckpts[3].file.model_state_dict # dckpts[2].file.model_state_dict

\* C29: with a non-empty training set and iterations >= 0 the training loop
\* terminates after exactly cfg.iterations micro-steps, over as many passes of
\* the loader as needed and stopping inside a pass when the count is reached;
\* global_step never exceeds cfg.iterations.
C29_LoopTerminates ==
    /\ <>[](/\ dpc = "done"
            /\ global_step = dcfg.iterations
            /\ trainer.opt_steps * dcfg.gradient_accumulation
                  + Cardinality(trainer.pending) = dcfg.iterations)
    /\ [](global_step <= dcfg.iterations)

C29_Witness ==
    /\ dpc = "done"
    /\ dcfg.num_batches = MaxBatches
    /\ global_step = dcfg.iterations
    /\ global_step > dcfg.num_batches
    /\ batch_idx # 0

(***************************************************************************)
(* Vocoder training: train()  (training/train_vocoder.py)                  *)
(*                                                                         *)
(* Network weights are residues mod 5; an optimizer's state is its step    *)
(* count, a scheduler's state its epoch count.  grad_g / grad_d hold the   *)
(* losses whose gradients sit in the generator's / discriminators' .grad;  *)
(* applied_g / applied_d what the last optimizer step applied; d_out the   *)
(* discriminator weights the last discriminator step produced and g_saw    *)
(* the ones the last generator step was scored by.                         *)
(***************************************************************************)
\* fields of a training checkpoint, in the order train() reads them on resume
ResumeOrder ==
    <<"generator", "mpd", "msd", "optim_g", "optim_d", "sched_g", "sched_d", "epoch">>

AllFields == {ResumeOrder[k] : k \in 1..Len(ResumeOrder)}

StateFields == AllFields \ {"epoch"}

\* contents of one batch
BatchData == {1, 2}

\* generator(mel)
GeneratorForward(gen, data) == (gen + data) % 5

\* the dict of the two torch.save calls at the end of an epoch
TrainingCheckpoint(m, epoch) ==
    [fields |-> AllFields, generator |-> m.generator, mpd |-> m.mpd, msd |-> m.msd,
     optim_g |-> m.optim_g, optim_d |-> m.optim_d, sched_g |-> m.sched_g,
     sched_d |-> m.sched_d, epoch |-> epoch]

\* a checkpoint file that lacks field f
PartialCheckpoint(f) ==
    [fields |-> AllFields \ {f}, generator |-> 3, mpd |-> 1, msd |-> 2,
     optim_g |-> 2, optim_d |-> 2, sched_g |-> 1, sched_d |-> 1, epoch |-> 0]

\* missing fields are skipped silently
FirstMissing_lenient(ckpt) == 0

\* index in ResumeOrder of the first ckpt["..."] that raises KeyError, 0 if none
FirstMissing(ckpt) ==
    IF \A k \in 1..Len(ResumeOrder) : ResumeOrder[k] \in ckpt.fields THEN 0
    ELSE CHOOSE k \in 1..Len(ResumeOrder) :
            /\ ResumeOrder[k] \notin ckpt.fields
            /\ \A j \in 1..(k - 1) : ResumeOrder[j] \in ckpt.fields

\* fields loaded before the resume block ends or raises
RestoredFields(ckpt) ==
    LET k == FirstMissing(ckpt)
    IN  IF k = 0 THEN AllFields ELSE {ResumeOrder[j] : j \in 1..(k - 1)}

\* load_state_dict(ckpt[...]) for each restored field; start_epoch = ckpt["epoch"] + 1
Resume(m, ckpt) ==
    LET r == RestoredFields(ckpt)
    IN  [f \in DOMAIN m |->
            IF f = "epoch" THEN (IF "epoch" \in r THEN ckpt.epoch + 1 ELSE m.epoch)
            ELSE IF f \in r THEN ckpt[f]
            ELSE m[f]]

LossTag(loss, m) == [loss |-> loss, epoch |-> m.epoch, batch |-> m.batch]

\* the discriminator step without optim_d.zero_grad()
DiscriminatorStep_nozero(m, data) ==
    LET fake == GeneratorForward(m.generator, data)
        grads == m.grad_d \cup {LossTag("loss_d", m)}
        mpd == (m.mpd + fake + data + 1 + Cardinality(grads)) % 5
        msd == (m.msd + 2 * fake + data + 2) % 5
    IN  [m EXCEPT !.grad_d = grads,
                  !.applied_d = grads,
                  !.mpd = mpd,
                  !.msd = msd,
                  !.optim_d = m.optim_d + 1,
                  !.d_out = <<mpd, msd>>,
                  !.ops = m.ops \o <<"generator(no_grad)", "loss_d.backward",
                                     "optim_d.step">>]

\* lines 244-261: optim_d.zero_grad(), fake audio under no_grad, loss_d.backward(),
\* optim_d.step()
DiscriminatorStep(m, data) ==
    LET fake == GeneratorForward(m.generator, data)
        grads == {LossTag("loss_d", m)}
        mpd == (m.mpd + fake + data + 1) % 5
        msd == (m.msd + 2 * fake + data + 2) % 5
    IN  [m EXCEPT !.grad_d = grads,
                  !.applied_d = grads,
                  !.mpd = mpd,
                  !.msd = msd,
                  !.optim_d = m.optim_d + 1,
                  !.d_out = <<mpd, msd>>,
                  !.ops = m.ops \o <<"optim_d.zero_grad", "generator(no_grad)",
                                     "loss_d.backward", "optim_d.step">>]

\* lines 263-282: optim_g.zero_grad(), fake audio with gradients, loss_g.backward()
\* (which also reaches the discriminators' parameters), optim_g.step()
GeneratorStep(m, data) ==
    LET fake == GeneratorForward(m.generator, data)
        grads == {LossTag("loss_g", m)}
    IN  [m EXCEPT !.grad_g = grads,
                  !.grad_d = m.grad_d \cup grads,
                  !.applied_g = grads,
                  !.g_saw = <<m.mpd, m.msd>>,
                  !.generator = (m.generator + fake + m.mpd + 2 * m.msd + 1) % 5,
                  !.optim_g = m.optim_g + 1,
                  !.ops = m.ops \o <<"optim_g.zero_grad", "generator(grad)",
                                     "loss_g.backward", "optim_g.step">>]

\* generator step before the discriminator step
BatchBody_gfirst(m, data) ==
    DiscriminatorStep(GeneratorStep([m EXCEPT !.ops = <<>>], data), data)

\* the body of `for mel, audio in pbar`
BatchBody(m, data) ==
    GeneratorStep(DiscriminatorStep([m EXCEPT !.ops = <<>>], data), data)

\* train() from its start to the entry of the epoch loop: lines 163-234
StartRun ==
    /\ vpc \in {"start", "stopped", "aborted"}
    /\ vrun.number < MaxRuns
    /\ IF vdisk.latest = <<>>
       THEN /\ vmem' = FreshVocoder
            /\ vrun' = [NoRun EXCEPT !.number = vrun.number + 1]
            /\ vpc' = IF 0 < vargs.epochs THEN "train" ELSE "export"
       ELSE LET ckpt == vdisk.latest[1]
                m == Resume(FreshVocoder, ckpt)
            IN  /\ vmem' = m
                /\ vrun' = [NoRun EXCEPT !.number = vrun.number + 1,
                                         !.resumed = TRUE,
                                         !.from = <<ckpt>>,
                                         !.restored = RestoredFields(ckpt)]
                /\ vpc' = IF FirstMissing(ckpt) # 0 THEN "aborted"
                          ELSE IF m.epoch < vargs.epochs THEN "train"
                          ELSE "export"
    /\ UNCHANGED <<vargs, vdisk>>
    /\ UNCHANGED <<samplerVars, diffusionVars, parseVars, pipelineVars>>

\* one batch: discriminator step, then generator step
TrainBatch(data) ==
    /\ vpc = "train"
    /\ LET m == BatchBody(vmem, data)
       IN  /\ vmem' = [m EXCEPT !.batch = vmem.batch + 1]
           /\ vpc' = IF vmem.batch + 1 = vargs.batches THEN "epoch_end" ELSE "train"
    /\ vrun' = [vrun EXCEPT !.train_steps = vrun.train_steps + 1]
    /\ UNCHANGED <<vargs, vdisk>>
    /\ UNCHANGED <<samplerVars, diffusionVars, parseVars, pipelineVars>>

\* (epoch + 1) % args.checkpoint_every == 0 or epoch == args.epochs - 1
NumberedDue(epoch, a) == (epoch + 1) % a.checkpoint_every = 0 \/ epoch = a.epochs - 1

\* end of an epoch: both schedulers step, numbered checkpoint if due, latest: 293-322
EndEpoch ==
    /\ vpc = "epoch_end"
    /\ LET m == [vmem EXCEPT !.sched_g = vmem.sched_g + 1, !.sched_d = vmem.sched_d + 1]
           ckpt == TrainingCheckpoint(m, vmem.epoch)
           due == NumberedDue(vmem.epoch, vargs)
       IN  /\ vdisk' = [vdisk EXCEPT
                 !.latest = <<ckpt>>,
                 !.numbered = IF due
                              THEN vdisk.numbered \cup {[name |-> vmem.epoch + 1, ckpt |-> ckpt]}
                              ELSE vdisk.numbered]
           /\ vmem' = [m EXCEPT !.epoch = vmem.epoch + 1, !.batch = 0]
           /\ vrun' = [vrun EXCEPT !.sched_steps = vrun.sched_steps + 1,
                                   !.writes = vrun.writes + (IF due THEN 2 ELSE 1)]
    /\ vpc' = IF vmem.epoch + 1 < vargs.epochs THEN "train" ELSE "export"
    /\ UNCHANGED vargs
    /\ UNCHANGED <<samplerVars, diffusionVars, parseVars, pipelineVars>>

\* after the epoch loop: the inference export 'vocoder.pt', lines 324-331
Export ==
    /\ vpc = "export"
    /\ vdisk' = [vdisk EXCEPT !.export = <<[generator_state_dict |-> vmem.generator]>>]
    /\ vrun' = [vrun EXCEPT !.writes = vrun.writes + 1]
    /\ vpc' = "finished"
    /\ UNCHANGED <<vargs, vmem>>
    /\ UNCHANGED <<samplerVars, diffusionVars, parseVars, pipelineVars>>

\* the process is killed; what is in memory is lost
Interrupt ==
    /\ vpc \in {"train", "epoch_end", "export"}
    /\ vpc' = "stopped"
    /\ vmem' = FreshVocoder
    /\ UNCHANGED <<vargs, vdisk, vrun>>
    /\ UNCHANGED <<samplerVars, diffusionVars, parseVars, pipelineVars>>

InitVocoder ==
    /\ \E e \in 1..MaxEpochs, c \in 1..MaxVCkptEvery, b \in 1..MaxVBatches :
          vargs = [epochs |-> e, checkpoint_every |-> c, batches |-> b]
    /\ vpc = "start"
    /\ \E latest \in {<<>>} \cup {<<PartialCheckpoint(f)>> : f \in AllFields} :
          vdisk = [latest |-> latest, numbered |-> {}, export |-> <<>>]
    /\ vmem = FreshVocoder
    /\ vrun = NoRun
    /\ IdleSampler
    /\ IdleDiffusion
    /\ IdleParse
    /\ IdlePipeline

NextVocoder ==
    \/ StartRun
    \/ \E data \in BatchData : TrainBatch(data)
    \/ EndEpoch
    \/ Export
    \/ Interrupt

SpecVocoder == InitVocoder /\ [][NextVocoder]_vars

(***************************************************************************)
(* Properties of vocoder training                                          *)
(***************************************************************************)
VocoderRunning == vpc \in {"train", "epoch_end", "export", "finished"}

\* C8: when 'vocoder_latest.pt' exists, generator, both discriminator families,
\* both optimizers, both schedulers and the epoch counter are all restored from
\* it before the first training step of the run; if a field is missing the run
\* aborts, and no training step, scheduler step or checkpoint write is performed
\* on the partially restored state.
C8_ResumeAllOrNothing ==
    vrun.resumed
    => LET ckpt == vrun.from[1]
       IN  /\ VocoderRunning
              => /\ ckpt.fields = AllFields
                 /\ vrun.restored = AllFields
           /\ (VocoderRunning /\ vrun.train_steps = 0 /\ vrun.sched_steps = 0)
              => /\ \A f \in StateFields : vmem[f] = ckpt[f]
                 /\ vmem.epoch = ckpt.epoch + 1
           /\ ckpt.fields # AllFields
              => /\ vpc = "aborted"
                 /\ vrun.train_steps = 0
                 /\ vrun.sched_steps = 0
                 /\ vrun.writes = 0
                 /\ vdisk.latest = vrun.from
                 /\ vdisk.numbered = {}
                 /\ vdisk.export = <<>>

C8_Witness ==
    /\ vpc = "aborted"
    /\ vrun.resumed
    /\ vrun.restored = {"generator", "mpd", "msd"}
    /\ vmem.generator = vrun.from[1].generator
    /\ vmem.generator # FreshVocoder.generator
    /\ vmem.optim_g = FreshVocoder.optim_g

\* C9: every batch performs exactly two optimizer steps, the discriminator step
\* first (gradients zeroed, fake audio without gradients, backward, optim_d.step)
\* and then the generator step (gradients zeroed, fake audio with gradients,
\* backward, optim_g.step); the generator step is scored by the discriminators
\* as updated in the same batch.
C9_TwoStepsPerBatch ==
    VocoderRunning
    => /\ vmem.optim_d = vmem.epoch * vargs.batches + vmem.batch
       /\ vmem.optim_g = vmem.optim_d
       /\ vrun.train_steps > 0
          => /\ vmem.ops = <<"optim_d.zero_grad", "generator(no_grad)", "loss_d.backward",
                             "optim_d.step", "optim_g.zero_grad", "generator(grad)",
                             "loss_g.backward", "optim_g.step">>
             /\ vmem.g_saw = vmem.d_out
             /\ vmem.d_out = <<vmem.mpd, vmem.msd>>

C9_Witness ==
    /\ vpc = "train"
    /\ vrun.train_steps = 1
    /\ vrun.resumed
    /\ vmem.optim_d = 3
    /\ vmem.optim_g = 3
    /\ vmem.g_saw = vmem.d_out
    /\ vmem.g_saw # <<vrun.from[1].mpd, vrun.from[1].msd>>

\* the batch the in-memory state was last trained on
LastBatch ==
    IF vmem.batch > 0 THEN [epoch |-> vmem.epoch, batch |-> vmem.batch - 1]
    ELSE [epoch |-> vmem.epoch - 1, batch |-> vargs.batches - 1]

\* C28: no optimizer applies a gradient of the other network's loss: the
\* discriminator step leaves the generator's parameters unchanged and applies
\* only the current batch's discriminator loss (what the previous generator
\* loss left in the discriminators' gradients is zeroed first); the generator
\* step leaves the discriminators' parameters unchanged and applies only the
\* current batch's generator loss.
C28_GradientIsolation ==
    /\ (VocoderRunning /\ vrun.train_steps > 0)
       => /\ vmem.applied_d =
                {[loss |-> "loss_d", epoch |-> LastBatch.epoch, batch |-> LastBatch.batch]}
          /\ vmem.applied_g =
                {[loss |-> "loss_g", epoch |-> LastBatch.epoch, batch |-> LastBatch.batch]}
    /\ vpc = "train"
       => \A data \in BatchData :
             LET d == DiscriminatorStep(vmem, data)
                 g == GeneratorStep(d, data)
             IN  /\ d.generator = vmem.generator
                 /\ d.optim_g = vmem.optim_g
                 /\ d.applied_d = {LossTag("loss_d", vmem)}
                 /\ g.mpd = d.mpd /\ g.msd = d.msd
                 /\ g.optim_d = d.optim_d
                 /\ g.applied_g = {LossTag("loss_g", vmem)}

C28_Witness ==
    /\ vpc = "train"
    /\ vrun.train_steps = 1
    /\ vmem.batch = 1
    /\ [loss |-> "loss_g", epoch |-> vmem.epoch, batch |-> 0] \in vmem.grad_d
    /\ \E data \in BatchData :
          LET d == DiscriminatorStep(vmem, data)
          IN  /\ d.applied_d = {LossTag("loss_d", vmem)}
              /\ d.mpd # vmem.mpd
              /\ GeneratorStep(d, data).generator # d.generator

(***************************************************************************)
(* parse_prompt  (inference/generate.py)                                   *)
(*                                                                         *)
(* A string is a sequence of one-character strings; indices returned are   *)
(* Python's 0-based list indices.                                          *)
(***************************************************************************)
UpperCase ==
    <<"A", "B", "C", "D", "E", "F", "G", "H", "I", "J", "K", "L", "M",
      "N", "O", "P", "Q", "R", "S", "T", "U", "V", "W", "X", "Y", "Z">>

LowerCase ==
    <<"a", "b", "c", "d", "e", "f", "g", "h", "i", "j", "k", "l", "m",
      "n", "o", "p", "q", "r", "s", "t", "u", "v", "w", "x", "y", "z">>

\* characters str.split() treats as separators
Whitespace == {" ", "\t", "\n"}

\* str.replace(",", " ")
ReplaceCommas(str) == [k \in 1..Len(str) |-> IF str[k] = "," THEN " " ELSE str[k]]

\* str.lower()
Lower(str) ==
    [k \in 1..Len(str) |->
        IF \E j \in 1..Len(UpperCase) : UpperCase[j] = str[k]
        THEN LowerCase[CHOOSE j \in 1..Len(UpperCase) : UpperCase[j] = str[k]]
        ELSE str[k]]

\* str.split(): the maximal runs of non-whitespace characters, in order
RECURSIVE SplitFrom(_, _, _)
SplitFrom(str, k, word) ==
    IF k > Len(str) THEN (IF word = <<>> THEN <<>> ELSE <<word>>)
    ELSE IF str[k] \in Whitespace
    THEN (IF word = <<>> THEN <<>> ELSE <<word>>) \o SplitFrom(str, k + 1, <<>>)
    ELSE SplitFrom(str, k + 1, Append(word, str[k]))

Split(str) == SplitFrom(str, 1, <<>>)

\* word in kw_to_idx, for kw_to_idx = {kw: i for i, kw in enumerate(vocab)}
InVocab(word, vc) == \E i \in 1..Len(vc) : vc[i] = word

\* kw_to_idx[word]: the 0-based index of the last entry equal to word
KwToIdx(word, vc) ==
    (CHOOSE i \in 1..Len(vc) : vc[i] = word /\ \A j \in (i + 1)..Len(vc) : vc[j] # word) - 1

\* the for loop: one index appended per matching word, in prompt order
RECURSIVE MatchTokens(_, _)
MatchTokens(words, vc) ==
    IF words = <<>> THEN <<>>
    ELSE (IF InVocab(Head(words), vc) THEN <<KwToIdx(Head(words), vc)>> ELSE <<>>)
         \o MatchTokens(Tail(words), vc)

\* ascending list of the elements of a set of integers
RECURSIVE SortedSeq(_)
SortedSeq(S) ==
    IF S = {} THEN <<>>
    ELSE LET m == CHOOSE x \in S : \A y \in S : x <= y
         IN  <<m>> \o SortedSeq(S \ {m})

\* matched indices returned in vocabulary order
parse_prompt_sorted(str, vc) ==
    LET ids == MatchTokens(Split(Lower(ReplaceCommas(str))), vc)
    IN  SortedSeq({ids[k] : k \in 1..Len(ids)})

parse_prompt(str, vc) == MatchTokens(Split(Lower(ReplaceCommas(str))), vc)

\* characters of the enumerated prompts
PromptChars == {"a", "b", "B", ",", " "}

RECURSIVE StringsUpTo(_)
StringsUpTo(n) ==
    IF n = 0 THEN {<<>>}
    ELSE LET shorter == StringsUpTo(n - 1)
         IN  shorter \cup {Append(str, c) : str \in shorter, c \in PromptChars}

\* a sorted vocabulary as build_vocab returns it
SmallVocab == << <<"a">>, <<"a", "b">>, <<"b">> >>

\* a sorted vocabulary in which "hit" has index 3 and "house" index 7
KickVocab ==
    << <<"a", "c", "i", "d">>, <<"b", "i", "g">>, <<"d", "e", "e", "p">>,
       <<"h", "i", "t">>, <<"h", "o", "l", "d">>, <<"h", "o", "p">>,
       <<"h", "o", "t">>, <<"h", "o", "u", "s", "e">> >>

HitHouse == <<"h", "i", "t", " ", "h", "o", "u", "s", "e">>

HouseHit == <<"h", "o", "u", "s", "e", " ", "h", "i", "t">>

KickPrompts ==
    { HitHouse, HouseHit,
      <<"H", "i", "t", ",", "H", "O", "U", "S", "E">>,
      <<"h", "o", "u", "s", "e", ",", " ", "l", "o", "u", "d", "\t", "h", "i", "t">> }

\* token_ids = parse_prompt(prompt, vocab)
ParsePrompt ==
    /\ ppc = "ready"
    /\ token_ids' = parse_prompt(prompt, vocab)
    /\ ppc' = "parsed"
    /\ UNCHANGED <<prompt, vocab>>
    /\ UNCHANGED <<samplerVars, diffusionVars, vocoderVars, pipelineVars>>

InitParse ==
    /\ \/ prompt \in StringsUpTo(MaxPromptLen) /\ vocab = SmallVocab
       \/ prompt \in KickPrompts /\ vocab = KickVocab
    /\ ppc = "ready"
    /\ token_ids = <<>>
    /\ IdleSampler
    /\ IdleDiffusion
    /\ IdleVocoder
    /\ IdlePipeline

NextParse == ParsePrompt

SpecParse == InitParse /\ [][NextParse]_vars

(***************************************************************************)
(* Properties of prompt parsing                                            *)
(***************************************************************************)
\* the vocabulary words the returned indices stand for
MatchedWords == [k \in 1..Len(token_ids) |-> vocab[token_ids[k] + 1]]

\* C10 (as amended): parse_prompt returns the matched vocabulary indices in
\* prompt order, one per matching token: the words they stand for are the
\* prompt's vocabulary words in the order of the prompt, so "hit house" parses
\* to [3, 7] and "house hit" to [7, 3]; only the set of indices is independent
\* of the token order.
C10_PromptOrder ==
    ppc = "parsed"
    => /\ \A k \in 1..Len(token_ids) : token_ids[k] \in 0..(Len(vocab) - 1)
       /\ MatchedWords =
             SelectSeq(Split(Lower(ReplaceCommas(prompt))), LAMBDA w : InVocab(w, vocab))
       /\ prompt = HitHouse => token_ids = <<3, 7>>
       /\ prompt = HouseHit => token_ids = <<7, 3>>

\* C10 (as stated): the returned indices are in vocabulary (ascending index)
\* order whatever the order of the tokens in the prompt; "hit house" and
\* "house hit" both parse to [3, 7].
C10_VocabularyOrder ==
    ppc = "parsed"
    => /\ \A j, k \in 1..Len(token_ids) : j < k => token_ids[j] <= token_ids[k]
       /\ prompt \in {HitHouse, HouseHit} => token_ids = <<3, 7>>

C10_Witness ==
    /\ ppc = "parsed"
    /\ prompt = HouseHit
    /\ vocab = KickVocab
    /\ token_ids = <<7, 3>>

(***************************************************************************)
(* Prompt encoding in generate()  (inference/generate.py lines 246-261,    *)
(* models/text_encoder.py)                                                 *)
(*                                                                         *)
(* A conditioning vector is modelled by one representative component; a    *)
(* returned batch of one vector is the one-element tuple <<v>>.            *)
(***************************************************************************)
\* largest length of a prompt handed to generate(), in characters
MaxEncodePromptLen == 2
\* largest number of generate() calls made on one loaded encoder
MaxCalls == 2

RECURSIVE SeqSum(_)
SeqSum(q) == IF q = <<>> THEN 0 ELSE Head(q) + SeqSum(Tail(q))

\* self.embedding(idx).mean(dim=0)
MeanEmbedding(enc, ids) ==
    SeqSum([k \in 1..Len(ids) |-> enc.embedding[ids[k] + 1]]) \div Len(ids)

\* self.proj(emb)
Proj(enc, emb) == FxMul(enc.proj.w, emb) + enc.proj.b

\* the empty token list is projected like any other (mean taken as zero)
KeywordEncoderForward_projected(enc, ids) ==
    IF Len(ids) = 0 THEN Proj(enc, 0) ELSE Proj(enc, MeanEmbedding(enc, ids))

\* KeywordEncoder.forward on a batch of one token list
KeywordEncoderForward(enc, ids) ==
    IF Len(ids) = 0 THEN enc.null_embedding ELSE Proj(enc, MeanEmbedding(enc, ids))

\* weights a checkpoint can hold for a vocabulary of the given size
EncoderWeights(vocab_size) ==
    { [embedding |-> [k \in 1..vocab_size |-> 10 * k],
       proj |-> [w |-> SCALE, b |-> 0], null_embedding |-> 30],
      [embedding |-> [k \in 1..vocab_size |-> 60 - 10 * k],
       proj |-> [w |-> SCALE \div 2, b |-> 20], null_embedding |-> 0] }

\* vocabularies of the enumerated checkpoints
EncodeVocabs == { SmallVocab, << <<"b">> >>, <<>> }

\* token_ids = parse_prompt(prompt, vocab) if prompt else []
PromptTokenIds(str, vc) == IF str # <<>> THEN parse_prompt(str, vc) ELSE <<>>

\* generate(), lines 247-261: token_ids, cond and uncond
EncodePrompt ==
    /\ ppc = "ready"
    /\ token_ids' = PromptTokenIds(prompt, vocab)
    /\ gen_cond' = <<KeywordEncoderForward(text_enc, token_ids')>>
    /\ gen_uncond' = <<KeywordEncoderForward(text_enc, <<>>)>>
    /\ ppc' = "encoded"
    /\ UNCHANGED <<prompt, vocab, text_enc, enc_log>>
    /\ UNCHANGED <<samplerVars, diffusionVars, vocoderVars, stageVars>>
    /\ UNCHANGED <<generateVars, startupVars, scheduleVars, shapeVars>>

\* one more prompt for the same loaded encoder (text_enc is in eval mode and
\* forward assigns no attribute, so the weights carry over unchanged)
NextCall(str) ==
    /\ ppc = "encoded"
    /\ Len(enc_log) + 1 < MaxCalls
    /\ enc_log' = Append(enc_log, [prompt |-> prompt, token_ids |-> token_ids,
                                   cond |-> gen_cond, uncond |-> gen_uncond])
    /\ prompt' = str
    /\ token_ids' = <<>>
    /\ gen_cond' = <<>>
    /\ gen_uncond' = <<>>
    /\ ppc' = "ready"
    /\ UNCHANGED <<vocab, text_enc>>
    /\ UNCHANGED <<samplerVars, diffusionVars, vocoderVars, stageVars>>
    /\ UNCHANGED <<generateVars, startupVars, scheduleVars, shapeVars>>

\* prompts of the calls after the first: empty, matched, unmatched, mixed
FollowUpPrompts == { <<>>, <<"a">>, <<"b", "a">>, <<"a", ",", "c">> }

InitEncode ==
    /\ prompt \in StringsUpTo(MaxEncodePromptLen)
    /\ vocab \in EncodeVocabs
    /\ text_enc \in EncoderWeights(Len(vocab))
    /\ ppc = "ready"
    /\ token_ids = <<>>
    /\ gen_cond = <<>>
    /\ gen_uncond = <<>>
    /\ enc_log = <<>>
    /\ IdleSampler
    /\ IdleDiffusion
    /\ IdleVocoder
    /\ IdleStages
    /\ IdleGenerate
    /\ IdleStartup
    /\ IdleSchedule
    /\ IdleShapes

NextEncode ==
    \/ EncodePrompt
    \/ \E str \in FollowUpPrompts : NextCall(str)

SpecEncode == InitEncode /\ [][NextEncode]_vars

(***************************************************************************)
(* Properties of prompt encoding                                           *)
(***************************************************************************)
\* the prompt is empty, or none of its tokens is a vocabulary word
NoTokenMatches ==
    \A w \in { Split(Lower(ReplaceCommas(prompt)))[k] :
                  k \in 1..Len(Split(Lower(ReplaceCommas(prompt)))) } :
        \A i \in 1..Len(vocab) : vocab[i] # w

\* C11: a prompt that is empty, or whose tokens are all absent from the
\* vocabulary, is encoded without error as unconditional generation:
\* parse_prompt returns the empty list and the conditioning vector is the
\* encoder's null vector, equal to the unconditioned vector, whatever the
\* vocabulary and whatever calls preceded it; the null vector is the same in
\* every call.
C11_UnmatchedPromptIsUnconditional ==
    ppc = "encoded"
    => /\ NoTokenMatches
          => /\ token_ids = <<>>
             /\ gen_cond = <<text_enc.null_embedding>>
             /\ gen_cond = gen_uncond
       /\ gen_uncond = <<text_enc.null_embedding>>
       /\ \A k \in 1..Len(enc_log) : enc_log[k].uncond = gen_uncond

C11_Witness ==
    /\ ppc = "encoded"
    /\ prompt = <<"b", "a">>
    /\ vocab = SmallVocab
    /\ Len(enc_log) = 1
    /\ enc_log[1].token_ids = <<1>>
    /\ enc_log[1].cond # gen_cond
    /\ token_ids = <<>>
    /\ gen_cond = <<text_enc.null_embedding>>
    /\ text_enc.null_embedding # Proj(text_enc, 0)

(***************************************************************************)
(* generate()  (inference/generate.py lines 186-335)                       *)
(*                                                                         *)
(* The call is followed from the first torch.load to the written file.     *)
(* glog records, in order, every checkpoint load and every computation of  *)
(* a network.  A waveform is the sequence of its samples (sample i of the  *)
(* tensor is entry i + 1), each a fixed-point number.  Audio lengths are   *)
(* derived from SAMPLE_RATE exactly as the module derives them; the model  *)
(* runs at a low sample rate to keep waveforms short.                      *)
(***************************************************************************)
\* samples per second of the modelled audio (the module's SAMPLE_RATE)
SAMPLE_RATE == 8
\* largest ddim_steps of a generate() call
MaxDdimSteps == 2
\* a vocoder or Griffin-Lim output is at most this much longer than the target
MaxExcess == 3

\* TARGET_SAMPLES = int(SAMPLE_RATE * DURATION_SECONDS), DURATION_SECONDS = 2.0
TARGET_SAMPLES == (SAMPLE_RATE * 20) \div 10

\* fade_start = int(1.0 * SAMPLE_RATE)
FadeStart == (SAMPLE_RATE * 100) \div 100

\* fade_end = int(1.75 * SAMPLE_RATE)
FadeEnd == (SAMPLE_RATE * 175) \div 100

\* the 0.95 of the normalization, as a fixed-point number
PeakTarget == (95 * SCALE) \div 100

Abs(v) == IF v < 0 THEN 0 - v ELSE v

\* waveform.abs().max()
Peak(w) == CHOOSE m \in {Abs(w[i]) : i \in 1..Len(w)} : \A i \in 1..Len(w) : Abs(w[i]) <= m

Zeros(n) == [i \in 1..n |-> 0]

\* the samples that are kept are the last TARGET_SAMPLES ones, padding in front
TrimPad_tail(w) ==
    IF Len(w) > TARGET_SAMPLES THEN SubSeq(w, Len(w) - TARGET_SAMPLES + 1, Len(w))
    ELSE IF Len(w) < TARGET_SAMPLES THEN Zeros(TARGET_SAMPLES - Len(w)) \o w
    ELSE w

\* lines 306-310: waveform[..., :TARGET_SAMPLES] or F.pad(waveform, (0, missing))
TrimPad(w) ==
    IF Len(w) > TARGET_SAMPLES THEN SubSeq(w, 1, TARGET_SAMPLES)
    ELSE IF Len(w) < TARGET_SAMPLES THEN w \o Zeros(TARGET_SAMPLES - Len(w))
    ELSE w

\* normalization to a peak of 1.0 instead of 0.95
Normalize_unit(w) ==
    IF Peak(w) > 0 THEN [i \in 1..Len(w) |-> FxMul(w[i], FxDiv(SCALE, Peak(w)))] ELSE w

\* lines 313-315: waveform * (0.95 / peak) when peak > 0
Normalize(w) ==
    IF Peak(w) > 0 THEN [i \in 1..Len(w) |-> FxMul(w[i], FxDiv(PeakTarget, Peak(w)))] ELSE w

\* torch.linspace(1.0, 0.0, fade_samples) ** 3
FadeCurve ==
    LET ramp == Linspace(SCALE, 0, FadeEnd - FadeStart)
    IN  [k \in 1..(FadeEnd - FadeStart) |-> FxMul(FxMul(ramp[k], ramp[k]), ramp[k])]

\* the tail after the fade is left as it is
Fade_keeptail(w) ==
    IF FadeStart < Len(w)
    THEN [i \in 1..Len(w) |->
            IF i - 1 < FadeStart THEN w[i]
            ELSE IF i - 1 < FadeEnd THEN FxMul(w[i], FadeCurve[i - FadeStart])
            ELSE w[i]]
    ELSE w

\* lines 320-326: waveform[fade_start:fade_end] *= fade; waveform[fade_end:] = 0.0
\* (applied to a waveform of TARGET_SAMPLES >= fade_end samples)
Fade(w) ==
    IF FadeStart < Len(w)
    THEN [i \in 1..Len(w) |->
            IF i - 1 < FadeStart THEN w[i]
            ELSE IF i - 1 < FadeEnd THEN FxMul(w[i], FadeCurve[i - FadeStart])
            ELSE 0]
    ELSE w

\* outlines of the waveforms a vocoder or Griffin-Lim returns
WaveShapes == {"silence", "flat", "swell", "loud"}

\* sample i (0-based) of a waveform of the given outline
WaveSample(shape, i) ==
    CASE shape = "silence" -> 0
      [] shape = "flat" -> SCALE \div 2
      [] shape = "swell" -> (IF i % 2 = 0 THEN 1 ELSE 0 - 1) * (10 + 4 * i)
      [] shape = "loud" -> (IF i % 3 = 0 THEN 0 - 1 ELSE 1) * (3 * SCALE - 7 * i)

RawWaveforms ==
    { [i \in 1..len |-> WaveSample(shape, i - 1)] :
        len \in 0..(TARGET_SAMPLES + MaxExcess), shape \in WaveShapes }

\* lines 221-242: torch.load of the diffusion checkpoint, LatentUNet and
\* KeywordEncoder built, load_state_dict raises on a mismatch
LoadDiffusion ==
    /\ gpc = "start"
    /\ glog' = Append(glog, "load:diffusion")
    /\ gpc' = IF gargs.diffusion_ok THEN "encode" ELSE "aborted"
    /\ UNCHANGED <<gargs, glocals>>
    /\ UNCHANGED <<samplerVars, diffusionVars, vocoderVars, parseVars, stageVars>>
    /\ UNCHANGED <<encodeVars, startupVars, scheduleVars, shapeVars>>

\* lines 244-261: the schedule, the prompt, cond and uncond
EncodeConditioning ==
    /\ gpc = "encode"
    /\ glog' = Append(glog, "text_enc")
    /\ gpc' = "sample"
    /\ UNCHANGED <<gargs, glocals>>
    /\ UNCHANGED <<samplerVars, diffusionVars, vocoderVars, parseVars, stageVars>>
    /\ UNCHANGED <<encodeVars, startupVars, scheduleVars, shapeVars>>

\* number of entries of a log equal to an event
Count(log, ev) == Cardinality({k \in 1..Len(log) : log[k] = ev})

\* lines 265-273: one iteration of the loop inside sampler.sample
DenoiseStep ==
    /\ gpc = "sample"
    /\ glog' = Append(glog, "denoise")
    /\ gpc' = IF Count(glog', "denoise") = gargs.ddim_steps THEN "load_vae" ELSE "sample"
    /\ UNCHANGED <<gargs, glocals>>
    /\ UNCHANGED <<samplerVars, diffusionVars, vocoderVars, parseVars, stageVars>>
    /\ UNCHANGED <<encodeVars, startupVars, scheduleVars, shapeVars>>

\* lines 277-280: torch.load of the VAE checkpoint, KickVAE built,
\* load_state_dict raises on a mismatch
LoadVAE ==
    /\ gpc = "load_vae"
    /\ glog' = Append(glog, "load:vae")
    /\ gpc' = IF gargs.vae_ok THEN "decode" ELSE "aborted"
    /\ UNCHANGED <<gargs, glocals>>
    /\ UNCHANGED <<samplerVars, diffusionVars, vocoderVars, parseVars, stageVars>>
    /\ UNCHANGED <<encodeVars, startupVars, scheduleVars, shapeVars>>

\* lines 282-287: vae.decode(latent)
DecodeLatent ==
    /\ gpc = "decode"
    /\ glog' = Append(glog, "vae.decode")
    /\ gpc' = "vocoder"
    /\ UNCHANGED <<gargs, glocals>>
    /\ UNCHANGED <<samplerVars, diffusionVars, vocoderVars, parseVars, stageVars>>
    /\ UNCHANGED <<encodeVars, startupVars, scheduleVars, shapeVars>>

\* lines 289-304: the vocoder checkpoint is loaded and run when the file
\* exists, Griffin-Lim runs otherwise
Synthesize ==
    /\ gpc = "vocoder"
    /\ \/ /\ gargs.vocoder = "ok"
          /\ glog' = glog \o <<"load:vocoder", "vocoder">>
          /\ glocals' = [glocals EXCEPT !.waveform = gargs.raw]
          /\ gpc' = "trim"
       \/ /\ gargs.vocoder = "mismatch"
          /\ glog' = Append(glog, "load:vocoder")
          /\ gpc' = "aborted"
          /\ UNCHANGED glocals
       \/ /\ gargs.vocoder = "none"
          /\ glog' = Append(glog, "griffin_lim")
          /\ glocals' = [glocals EXCEPT !.waveform = gargs.raw]
          /\ gpc' = "trim"
    /\ UNCHANGED gargs
    /\ UNCHANGED <<samplerVars, diffusionVars, vocoderVars, parseVars, stageVars>>
    /\ UNCHANGED <<encodeVars, startupVars, scheduleVars, shapeVars>>

\* lines 306-310
TrimOrPad ==
    /\ gpc = "trim"
    /\ glocals' = [glocals EXCEPT !.trimmed = TrimPad(glocals.waveform)]
    /\ gpc' = "normalize"
    /\ UNCHANGED <<gargs, glog>>
    /\ UNCHANGED <<samplerVars, diffusionVars, vocoderVars, parseVars, stageVars>>
    /\ UNCHANGED <<encodeVars, startupVars, scheduleVars, shapeVars>>

\* lines 312-315
NormalizePeak ==
    /\ gpc = "normalize"
    /\ glocals' = [glocals EXCEPT
                      !.normalized = Normalize(glocals.trimmed),
                      !.divisions = IF Peak(glocals.trimmed) > 0 THEN @ + 1 ELSE @]
    /\ gpc' = "fade"
    /\ UNCHANGED <<gargs, glog>>
    /\ UNCHANGED <<samplerVars, diffusionVars, vocoderVars, parseVars, stageVars>>
    /\ UNCHANGED <<encodeVars, startupVars, scheduleVars, shapeVars>>

\* lines 317-335: fade-out, silent tail, the file is written
FadeAndSave ==
    /\ gpc = "fade"
    /\ glocals' = [glocals EXCEPT !.faded = Fade(glocals.normalized)]
    /\ glog' = Append(glog, "wavfile.write")
    /\ gpc' = "done"
    /\ UNCHANGED gargs
    /\ UNCHANGED <<samplerVars, diffusionVars, vocoderVars, parseVars, stageVars>>
    /\ UNCHANGED <<encodeVars, startupVars, scheduleVars, shapeVars>>

InitGenerate ==
    /\ gargs \in [diffusion_ok : BOOLEAN, vae_ok : BOOLEAN,
                  vocoder : {"none", "ok", "mismatch"},
                  ddim_steps : 1..MaxDdimSteps, raw : RawWaveforms]
    /\ gpc = "start"
    /\ glog = <<>>
    /\ glocals = [waveform |-> <<>>, trimmed |-> <<>>, normalized |-> <<>>,
                  faded |-> <<>>, divisions |-> 0]
    /\ IdleSampler
    /\ IdleDiffusion
    /\ IdleVocoder
    /\ IdleStages
    /\ IdleParse
    /\ IdleEncode
    /\ IdleStartup
    /\ IdleSchedule
    /\ IdleShapes

NextGenerate ==
    \/ LoadDiffusion
    \/ EncodeConditioning
    \/ DenoiseStep
    \/ LoadVAE
    \/ DecodeLatent
    \/ Synthesize
    \/ TrimOrPad
    \/ NormalizePeak
    \/ FadeAndSave

SpecGenerate == InitGenerate /\ [][NextGenerate]_vars

(***************************************************************************)
(* Properties of generate()                                                *)
(***************************************************************************)
\* an event occurs in glog before position k
Earlier(ev, k) == \E j \in 1..(k - 1) : glog[j] = ev

\* C12 (as stated): a mismatch between any checkpoint and its network aborts
\* generate() before any computation: the denoiser, codec and vocoder
\* checkpoints are all loaded into their networks before the sampler's first
\* denoising step, so an aborted call has computed no denoising step.
C12_AllLoadsBeforeSampling ==
    /\ \A k \in 1..Len(glog) :
          glog[k] = "denoise"
          => /\ Earlier("load:diffusion", k)
             /\ Earlier("load:vae", k)
             /\ gargs.vocoder # "none" => Earlier("load:vocoder", k)
    /\ gpc = "aborted" => Count(glog, "denoise") = 0

\* C19: after the trim/pad step the waveform has exactly TARGET_SAMPLES
\* samples for every length of the synthesized waveform: a longer one keeps
\* its first TARGET_SAMPLES samples unchanged, a shorter one keeps all its
\* samples and is extended with zeros, and no length makes the call fail
\* (a call only aborts in a checkpoint load).
C19_TrimPadLength ==
    /\ gpc \in {"normalize", "fade", "done"}
       => LET w == glocals.waveform
              t == glocals.trimmed
          IN  /\ Len(t) = TARGET_SAMPLES
              /\ \A i \in 1..TARGET_SAMPLES :
                    t[i] = IF i <= Len(w) THEN w[i] ELSE 0
    /\ gpc = "aborted"
       => glog[Len(glog)] \in {"load:diffusion", "load:vae", "load:vocoder"}
    /\ gpc = "trim" => ENABLED TrimOrPad

C19_Witness ==
    /\ gpc = "normalize"
    /\ gargs.vocoder = "ok"
    /\ Len(glocals.waveform) = TARGET_SAMPLES + 2
    /\ glocals.waveform[TARGET_SAMPLES + 1] # 0
    /\ glocals.waveform[1] # 0
    /\ Len(glocals.trimmed) = TARGET_SAMPLES

SkipThreshold == 100

Procedures == {"codec", "denoiser", "vocoder"}

FileCounts == {0, 1, 2, SkipThreshold, SkipThreshold + 1, SkipThreshold + 2}

\* pre_encode_latents: the number of latent files it leaves in latents_dir
LatentsAfterPreEncode(a) == IF a.latents > SkipThreshold THEN a.latents ELSE a.files

\* len(dataset) of the dataset train() constructs
DatasetLen(a) == IF a.procedure = "denoiser" THEN LatentsAfterPreEncode(a) ELSE a.files

\* lines 146-147 of train_diffusion.py: pre_encode_latents(cfg) loads the
\* frozen VAE and encodes the mel files, unless enough latents exist
PreEncode ==
    /\ tpc = "start"
    /\ targs.procedure = "denoiser"
    /\ tlog' = IF targs.latents > SkipThreshold
               THEN Append(tlog, "pre_encode:skipped")
               ELSE tlog \o <<"load:vae", "model:vae", "pre_encode">>
    /\ tpc' = "dataset"
    /\ UNCHANGED targs
    /\ UNCHANGED <<samplerVars, diffusionVars, vocoderVars, parseVars, stageVars>>
    /\ UNCHANGED <<encodeVars, generateVars, scheduleVars, shapeVars>>

\* MelDataset, LatentDataset or VocoderDataset is constructed: the first two
\* raise FileNotFoundError on an empty file list, VocoderDataset has no check
BuildDataset ==
    /\ \/ tpc = "start" /\ targs.procedure \in {"codec", "vocoder"}
       \/ tpc = "dataset"
    /\ tlog' = Append(tlog, "dataset")
    /\ tpc' = IF targs.procedure \in {"codec", "denoiser"} /\ DatasetLen(targs) = 0
              THEN "raised"
              ELSE "loader"
    /\ UNCHANGED targs
    /\ UNCHANGED <<samplerVars, diffusionVars, vocoderVars, parseVars, stageVars>>
    /\ UNCHANGED <<encodeVars, generateVars, scheduleVars, shapeVars>>

\* the DataLoader(s): with shuffle=True torch builds a RandomSampler, which in
\* the torch versions that check num_samples raises ValueError on an empty
\* data source; the code under src/ does not decide which version runs
BuildLoaders ==
    /\ tpc = "loader"
    /\ tlog' = Append(tlog, "loader")
    /\ tpc' = IF DatasetLen(targs) = 0 /\ targs.sampler_check THEN "raised" ELSE "models"
    /\ UNCHANGED targs
    /\ UNCHANGED <<samplerVars, diffusionVars, vocoderVars, parseVars, stageVars>>
    /\ UNCHANGED <<encodeVars, generateVars, scheduleVars, shapeVars>>

\* the trained networks, optimizers and (vocoder) the resume from
\* vocoder_latest.pt
BuildModels ==
    /\ tpc = "models"
    /\ tlog' = Append(tlog, "model")
    /\ tpc' = "loop"
    /\ UNCHANGED targs
    /\ UNCHANGED <<samplerVars, diffusionVars, vocoderVars, parseVars, stageVars>>
    /\ UNCHANGED <<encodeVars, generateVars, scheduleVars, shapeVars>>

\* the training loop up to its first torch.save; an epoch over an empty
\* vocoder loader has no batch and still ends with the checkpoint writes
TrainToCheckpoint ==
    /\ tpc = "loop"
    /\ tlog' = tlog \o <<"loop", "checkpoint">>
    /\ tpc' = "done"
    /\ UNCHANGED targs
    /\ UNCHANGED <<samplerVars, diffusionVars, vocoderVars, parseVars, stageVars>>
    /\ UNCHANGED <<encodeVars, generateVars, scheduleVars, shapeVars>>

InitStartup ==
    /\ targs \in [procedure : Procedures, files : FileCounts, latents : FileCounts,
                  sampler_check : BOOLEAN]
    /\ targs.latents <= targs.files
    /\ targs.procedure # "denoiser" => targs.latents = 0
    /\ tpc = "start"
    /\ tlog = <<>>
    /\ IdleSampler
    /\ IdleDiffusion
    /\ IdleVocoder
    /\ IdleStages
    /\ IdleParse
    /\ IdleEncode
    /\ IdleGenerate
    /\ IdleSchedule
    /\ IdleShapes

NextStartup ==
    \/ PreEncode
    \/ BuildDataset
    \/ BuildLoaders
    \/ BuildModels
    \/ TrainToCheckpoint

SpecStartup == InitStartup /\ [][NextStartup]_vars

(***************************************************************************)
(* Properties of the start of training                                     *)
(***************************************************************************)
Logged(ev) == \E k \in 1..Len(tlog) : tlog[k] = ev

\* C13 (as stated): for each of the three training procedures, starting on an
\* empty dataset is fatal: the error is raised when the dataset is
\* constructed, before any model is built and before the training loop is
\* entered, and no checkpoint is written.
C13_EmptyDatasetFatal ==
    targs.files = 0
    => /\ tpc \in {"start", "dataset", "raised"}
       /\ tpc = "raised" => tlog[Len(tlog)] = "dataset"
       /\ ~Logged("model:vae")
       /\ ~Logged("model")
       /\ ~Logged("loop")
       /\ ~Logged("checkpoint")

(***************************************************************************)
(* NoiseScheduler as an object  (models/diffusion.py lines 14-45)          *)
(***************************************************************************)
\* largest timesteps argument of an enumerated constructor call
MaxSchedT == 4
\* largest number of add_noise calls on one schedule
MaxAddNoise == 1

\* beta_start and beta_end of the enumerated constructor calls
ScheduleBetas == {1, 2, 10, 30, SCALE \div 2}

\* NoiseScheduler(timesteps, beta_start, beta_end): __init__ checks none of
\* its arguments; torch.linspace raises for a negative number of steps and
\* returns an empty tensor for zero steps
ConstructSchedule ==
    /\ npc = "new"
    /\ IF nargs.timesteps < 0
       THEN npc' = "raised" /\ UNCHANGED nsched
       ELSE /\ npc' = "built"
            /\ nsched' = NoiseScheduler(nargs.timesteps, nargs.beta_start, nargs.beta_end)
    /\ UNCHANGED <<nargs, noised>>
    /\ UNCHANGED <<samplerVars, diffusionVars, vocoderVars, parseVars, stageVars>>
    /\ UNCHANGED <<encodeVars, generateVars, startupVars, shapeVars>>

\* ab.sqrt() * x + (1 - ab).sqrt() * noise
AddNoiseValue(sch, x, noise, t) ==
    LET ab == AlphaBar(sch, t)
    IN  FxMul(FxSqrt(ab), x) + FxMul(FxSqrt(SCALE - ab), noise)

\* scheduler.add_noise(x, noise, t) for a timestep t of the table
AddNoise(x, noise, t) ==
    /\ npc = "built"
    /\ t \in 0..(nsched.timesteps - 1)
    /\ Len(noised) < MaxAddNoise
    /\ noised' = Append(noised, [x |-> x, noise |-> noise, t |-> t,
                                 out |-> AddNoiseValue(nsched, x, noise, t)])
    /\ UNCHANGED <<nargs, npc, nsched>>
    /\ UNCHANGED <<samplerVars, diffusionVars, vocoderVars, parseVars, stageVars>>
    /\ UNCHANGED <<encodeVars, generateVars, startupVars, shapeVars>>

InitSchedule ==
    /\ nargs \in [timesteps : (0 - 1)..MaxSchedT, beta_start : ScheduleBetas,
                  beta_end : ScheduleBetas]
    /\ npc = "new"
    /\ nsched = [timesteps |-> 0, betas |-> <<>>, alphas |-> <<>>, alpha_bars |-> <<>>]
    /\ noised = <<>>
    /\ IdleSampler
    /\ IdleDiffusion
    /\ IdleVocoder
    /\ IdleStages
    /\ IdleParse
    /\ IdleEncode
    /\ IdleGenerate
    /\ IdleStartup
    /\ IdleShapes

NextSchedule ==
    \/ ConstructSchedule
    \/ \E x \in {0, SCALE \div 2}, noise \in {0 - 30, SCALE}, t \in 0..(MaxSchedT - 1) :
          AddNoise(x, noise, t)

SpecSchedule == InitSchedule /\ [][NextSchedule]_vars

(***************************************************************************)
(* Properties of the noise schedule                                        *)
(***************************************************************************)
\* C14 (as stated): constructing the schedule with timesteps T <= 0 or with
\* beta_end <= beta_start is a configuration error: the constructor raises
\* instead of returning a schedule object.
C14_InvalidArgumentsRaise ==
    (npc # "new" /\ (nargs.timesteps <= 0 \/ nargs.beta_end <= nargs.beta_start))
    => npc = "raised"

MaxDim == 12

\* N_MELS
N_MELS == 128
\* HOP_LENGTH
HOP_LENGTH == 512

\* the spectrogram size the decoder crops to: out[:, :, :128, :173]
MelShape == <<N_MELS, 173>>

\* the latent size generate() asks the sampler for: shape=(1, latent_dim, 8, 11)
LatentShape == <<8, 11>>

\* output size of nn.Conv1d / nn.Conv2d along one dimension
ConvOut(n, kernel, stride, padding, dilation) ==
    ((n + 2 * padding - dilation * (kernel - 1) - 1) \div stride) + 1

\* a transpose convolution without its padding
ConvTransposeOut_unpadded(n, kernel, stride, padding) ==
    (n - 1) * stride + (kernel - 1) + 1

\* output size of nn.ConvTranspose1d / nn.ConvTranspose2d along one dimension
\* (dilation 1, output_padding 0)
ConvTransposeOut(n, kernel, stride, padding) ==
    (n - 1) * stride - 2 * padding + (kernel - 1) + 1

\* no crop
CropTo_none(shape, target) == shape

\* t[:, :, :target[1], :target[2]]
CropTo(shape, target) == <<Min(shape[1], target[1]), Min(shape[2], target[2])>>

\* nn.Conv2d(c_in, c_out, 3, stride=2, padding=1) on a 2-D size
Down2d(shape) == <<ConvOut(shape[1], 3, 2, 1, 1), ConvOut(shape[2], 3, 2, 1, 1)>>

\* nn.ConvTranspose2d(c_in, c_out, 4, stride=2, padding=1) on a 2-D size
Up2d(shape) == <<ConvTransposeOut(shape[1], 4, 2, 1), ConvTransposeOut(shape[2], 4, 2, 1)>>

\* nn.Conv2d(c, c, 3, padding=1) and nn.Conv2d(c_in, c_out, 1): ResBlock,
\* CondResBlock, SelfAttention2d, the 1x1 projections
Same2d(shape) ==
    <<ConvOut(ConvOut(shape[1], 3, 1, 1, 1), 1, 1, 0, 1),
      ConvOut(ConvOut(shape[2], 3, 1, 1, 1), 1, 1, 0, 1)>>

\* Encoder.forward: four times a stride-2 convolution and a ResBlock, then conv_mu
EncoderTrace(shape) ==
    LET s1 == Same2d(Down2d(shape))
        s2 == Same2d(Down2d(s1))
        s3 == Same2d(Down2d(s2))
        s4 == Same2d(Down2d(s3))
    IN  <<s1, s2, s3, s4, Same2d(s4)>>

\* Decoder.forward: 1x1 convolution, four transpose convolutions with
\* ResBlocks between them, then the crop out[:, :, :128, :173]
DecoderTrace(shape) ==
    LET s0 == Same2d(shape)
        s1 == Same2d(Up2d(s0))
        s2 == Same2d(Up2d(s1))
        s3 == Same2d(Up2d(s2))
        s4 == Up2d(s3)
    IN  <<s1, s2, s3, s4, CropTo(s4, MelShape)>>

\* LatentUNet.forward, lines 171-196; torch.cat raises when the spatial
\* sizes of its two tensors differ, and the trace then ends at that point
UNetTrace(shape) ==
    LET h1 == Same2d(shape)
        h2 == Same2d(Down2d(h1))
        h3 == Same2d(Down2d(h2))
        u2 == Up2d(h3)
        c2 == CropTo(u2, h2)
        u1 == Up2d(Same2d(c2))
        c1 == CropTo(u1, h1)
    IN  IF c2 # h2 THEN <<h1, h2, h3, u2, c2>>
        ELSE IF c1 # h1 THEN <<h1, h2, h3, u2, c2, u1, c1>>
        ELSE <<h1, h2, h3, u2, c2, u1, c1, Same2d(c1)>>

\* HiFiGANGenerator.__init__ defaults
UpsampleRates == <<8, 8, 2, 2, 2>>

UpsampleKernelSizes == <<16, 16, 4, 4, 4>>

ResblockKernelSizes == <<3, 7, 11>>

ResblockDilations == <<1, 3, 5>>

\* the padding of an upsampling layer taken as zero
UpsamplePadding_zero(k, u) == 0

\* padding=(k - u) // 2 of an upsampling layer
UpsamplePadding(k, u) == (k - u) \div 2

\* ResBlock1.forward: for each dilation d a convolution with
\* padding=(kernel_size * d - d) // 2 and one with padding=(kernel_size - 1) // 2,
\* added to the block's input; the length it returns, or -1 when the
\* addition xt + x has operands of different lengths
RECURSIVE ResBlock1Len(_, _, _)
ResBlock1Len(n, kernel, j) ==
    IF j > Len(ResblockDilations) THEN n
    ELSE LET d == ResblockDilations[j]
             xt == ConvOut(ConvOut(n, kernel, 1, (kernel * d - d) \div 2, d),
                           kernel, 1, (kernel - 1) \div 2, 1)
         IN  IF xt = n THEN ResBlock1Len(n, kernel, j + 1) ELSE 0 - 1

\* the averaged resblocks of one upsampling level: the common length, or -1
ResblocksLen(n) ==
    IF \A j \in 1..Len(ResblockKernelSizes) : ResBlock1Len(n, ResblockKernelSizes[j], 1) = n
    THEN n ELSE 0 - 1

\* HiFiGANGenerator.forward from upsampling level i on
RECURSIVE UpsampleTrace(_, _)
UpsampleTrace(n, i) ==
    IF i > Len(UpsampleRates) THEN << <<ConvOut(n, 7, 1, 3, 1)>> >>
    ELSE LET up == ConvTransposeOut(n, UpsampleKernelSizes[i], UpsampleRates[i],
                                    UpsamplePadding(UpsampleKernelSizes[i], UpsampleRates[i]))
             res == ResblocksLen(up)
         IN  IF res < 0 THEN << <<up>>, <<res>> >>
             ELSE << <<up>> >> \o UpsampleTrace(res, i + 1)

\* HiFiGANGenerator.forward on a mel spectrogram of the given frame count
GeneratorTrace(frames) == << <<ConvOut(frames, 7, 1, 3, 1)>> >> \o UpsampleTrace(ConvOut(frames, 7, 1, 3, 1), 1)

RECURSIVE Product(_)
Product(q) == IF q = <<>> THEN 1 ELSE Head(q) * Product(Tail(q))

\* vae.encoder(x) on a spectrogram of size <<h, w>>
RunEncoder ==
    /\ net_pc = "ready"
    /\ net_in.net = "encoder"
    /\ net_trace' = EncoderTrace(<<net_in.h, net_in.w>>)
    /\ net_pc' = "done"
    /\ UNCHANGED net_in
    /\ UNCHANGED <<samplerVars, diffusionVars, vocoderVars, parseVars, stageVars>>
    /\ UNCHANGED <<encodeVars, generateVars, startupVars, scheduleVars>>

\* vae.decode(z) on a latent of size <<h, w>>
RunDecoder ==
    /\ net_pc = "ready"
    /\ net_in.net = "decoder"
    /\ net_trace' = DecoderTrace(<<net_in.h, net_in.w>>)
    /\ net_pc' = "done"
    /\ UNCHANGED net_in
    /\ UNCHANGED <<samplerVars, diffusionVars, vocoderVars, parseVars, stageVars>>
    /\ UNCHANGED <<encodeVars, generateVars, startupVars, scheduleVars>>

\* model(x, t, cond) on a noisy latent of size <<h, w>>
RunUNet ==
    /\ net_pc = "ready"
    /\ net_in.net = "unet"
    /\ net_trace' = UNetTrace(<<net_in.h, net_in.w>>)
    /\ net_pc' = IF Len(net_trace') = 8 THEN "done" ELSE "raised"
    /\ UNCHANGED net_in
    /\ UNCHANGED <<samplerVars, diffusionVars, vocoderVars, parseVars, stageVars>>
    /\ UNCHANGED <<encodeVars, generateVars, startupVars, scheduleVars>>

\* vocoder(log_mel) on a spectrogram of w frames
RunGenerator ==
    /\ net_pc = "ready"
    /\ net_in.net = "generator"
    /\ net_trace' = GeneratorTrace(net_in.w)
    /\ net_pc' = IF Len(net_trace') = Len(UpsampleRates) + 2 THEN "done" ELSE "raised"
    /\ UNCHANGED net_in
    /\ UNCHANGED <<samplerVars, diffusionVars, vocoderVars, parseVars, stageVars>>
    /\ UNCHANGED <<encodeVars, generateVars, startupVars, scheduleVars>>

\* output length of nn.AvgPool1d(kernel, stride, padding)
AvgPoolOut(n, kernel, stride, padding) ==
    ((n + 2 * padding - kernel) \div stride) + 1

\* self.pools of MultiScaleDiscriminator: Identity, AvgPool1d(4, 2, 2) twice
MsdPools == <<"identity", "avgpool", "avgpool">>

\* pool(x) for one entry of self.pools, x of length n
PoolLen(pool, n) == IF pool = "identity" THEN n ELSE AvgPoolOut(n, 4, 2, 2)

\* MultiScaleDiscriminator.forward: x_in = pool(x) for every (pool, disc)
\* pair; x itself is not reassigned
MultiScaleInputs(n) == [i \in 1..Len(MsdPools) |-> <<PoolLen(MsdPools[i], n)>>]

\* msd(y) on a waveform of w samples
RunMSD ==
    /\ net_pc = "ready"
    /\ net_in.net = "msd"
    /\ net_trace' = MultiScaleInputs(net_in.w)
    /\ net_pc' = "done"
    /\ UNCHANGED net_in
    /\ UNCHANGED <<samplerVars, diffusionVars, vocoderVars, parseVars, stageVars>>
    /\ UNCHANGED <<encodeVars, generateVars, startupVars, scheduleVars>>

\* the enumerated forward passes: every small input size, and the
\* spectrogram size itself for the encoder and the vocoder
ShapeInputs ==
    [net : {"encoder", "decoder", "unet"}, h : 1..MaxDim, w : 1..MaxDim]
    \cup [net : {"generator"}, h : {N_MELS}, w : 1..MaxDim]
    \cup [net : {"msd"}, h : {1}, w : 1..MaxDim]
    \cup { [net |-> "encoder", h |-> MelShape[1], w |-> MelShape[2]],
           [net |-> "generator", h |-> MelShape[1], w |-> MelShape[2]] }

InitShapes ==
    /\ net_in \in ShapeInputs
    /\ net_pc = "ready"
    /\ net_trace = <<>>
    /\ IdleSampler
    /\ IdleDiffusion
    /\ IdleVocoder
    /\ IdleStages
    /\ IdleParse
    /\ IdleEncode
    /\ IdleGenerate
    /\ IdleStartup
    /\ IdleSchedule

NextShapes ==
    \/ RunEncoder
    \/ RunDecoder
    \/ RunUNet
    \/ RunGenerator
    \/ RunMSD

SpecShapes == InitShapes /\ [][NextShapes]_vars

(***************************************************************************)
(* Properties of the tensor shapes                                         *)
(***************************************************************************)
InputShape == <<net_in.h, net_in.w>>

Doubled(shape) == <<2 * shape[1], 2 * shape[2]>>

\* C16: the encoder's four stride-2 stages map a 128 x 173 spectrogram to
\* exactly the 8 x 11 latent size the sampler is asked for, and the decoder
\* maps an 8 x 11 latent through four doubling stages to 128 x 176 and crops
\* (never resizes) it to exactly 128 x 173, the spectrogram size.
C16_CodecShapes ==
    net_pc = "done"
    => /\ (net_in.net = "encoder" /\ InputShape = MelShape)
          => /\ Len(net_trace) = 5
             /\ net_trace[4] = LatentShape
             /\ net_trace[5] = LatentShape
       /\ net_in.net = "decoder"
          => /\ Len(net_trace) = 5
             /\ net_trace[1] = Doubled(InputShape)
             /\ \A k \in 2..4 : net_trace[k] = Doubled(net_trace[k - 1])
             /\ \A d \in 1..2 : net_trace[5][d] = Min(net_trace[4][d], MelShape[d])
       /\ (net_in.net = "decoder" /\ InputShape = LatentShape)
          => /\ net_trace[4] = <<128, 176>>
             /\ net_trace[5] = MelShape

C16_Witness ==
    /\ net_pc = "done"
    /\ net_in.net = "decoder"
    /\ InputShape = LatentShape
    /\ net_trace[4][2] > MelShape[2]
    /\ net_trace[5] = <<128, 173>>

\* C17: in LatentUNet.forward, for every input size H x W with H, W >= 1
\* (in particular 8 x 11), each transpose-convolution output is at least as
\* large as its skip tensor in both dimensions and is cropped to exactly the
\* skip's size before the concatenation, so both concatenations are valid and
\* the predicted noise has exactly the input's size.
C17_UNetCrop ==
    (net_in.net = "unet" /\ net_pc # "ready")
    => /\ net_pc = "done"
       /\ Len(net_trace) = 8
       /\ LET h1 == net_trace[1]
              h2 == net_trace[2]
              u2 == net_trace[4]
              c2 == net_trace[5]
              u1 == net_trace[6]
              c1 == net_trace[7]
          IN  /\ h1 = InputShape
              /\ \A d \in 1..2 : u2[d] >= h2[d] /\ u1[d] >= h1[d]
              /\ c2 = h2
              /\ c1 = h1
              /\ net_trace[8] = InputShape

C17_Witness ==
    /\ net_pc = "done"
    /\ net_in = [net |-> "unet", h |-> 8, w |-> 11]
    /\ net_trace[2] = <<4, 6>>
    /\ net_trace[6] = <<8, 12>>
    /\ net_trace[7] = <<8, 11>>

\* C18: the product of the generator's upsampling strides (8, 8, 2, 2, 2) is
\* the hop length 512, and for every frame count F >= 1 the generator returns
\* exactly F x 512 samples: every upsampling stage multiplies the length by
\* its stride exactly and every residual and projection convolution keeps it.
C18_GeneratorLength ==
    /\ Product(UpsampleRates) = HOP_LENGTH
    /\ (net_in.net = "generator" /\ net_pc # "ready")
       => /\ net_pc = "done"
          /\ Len(net_trace) = Len(UpsampleRates) + 2
          /\ net_trace[1] = <<net_in.w>>
          /\ \A i \in 1..Len(UpsampleRates) :
                net_trace[i + 1] = <<net_trace[i][1] * UpsampleRates[i]>>
          /\ net_trace[Len(net_trace)] = <<net_in.w * HOP_LENGTH>>

C18_Witness ==
    /\ net_pc = "done"
    /\ net_in.net = "generator"
    /\ net_in.w = MelShape[2]
    /\ net_trace[Len(net_trace)] = <<88576>>

\* C23: for a waveform of length T the three sub-discriminators of
\* MultiScaleDiscriminator receive inputs of lengths T, floor(T/2)+1 and
\* floor((floor(T/2)+1)/2)+1: the raw waveform, its pooled copy, and the pooled
\* copy of that second input.
C23_SuccessivePooling ==
    (net_in.net = "msd" /\ net_pc = "done")
    => LET T == net_in.w
           second == (T \div 2) + 1
       IN  /\ net_trace[1] = <<T>>
           /\ net_trace[2] = <<second>>
           /\ net_trace[3] = <<(second \div 2) + 1>>

(***************************************************************************)
(* Denoiser checkpoints handed to inference: the torch.save of train()     *)
(* (training/train_diffusion.py) and the load at the head of generate()    *)
(* (inference/generate.py)                                                 *)
(***************************************************************************)
\* two training set-ups that differ in network size and vocabulary
TrainingSetups ==
    { [base_channels |-> 1, vocab |-> TrainVocab],
      [base_channels |-> 2, vocab |-> << <<"h", "i", "t">> >>] }

\* the state dict the raw training weights would give
DenoiserWeights_raw(ckpt) == ckpt["model_state_dict"]

\* diff_ckpt["ema_state_dict"], handed to model.load_state_dict
DenoiserWeights(ckpt) == ckpt["ema_state_dict"]

\* the head of generate(): vocab, cfg, LatentUNet, KeywordEncoder, NoiseScheduler
BuildDenoiser(ckpt) ==
    LET vc == ckpt["vocab"]
        cfg == ckpt["config"]
    IN  [status |-> "built", vocab |-> vc, cfg |-> cfg,
         model |-> [base_channels |-> cfg.base_channels,
                    state_dict |-> DenoiserWeights(ckpt)],
         text_enc |-> [vocab_size |-> Len(vc),
                       state_dict |-> ckpt["text_enc_state_dict"]]]

\* generate(diffusion_checkpoint = the k-th file written so far)
LoadDenoiser(k) ==
    /\ dpc \in {"loop", "done"}
    /\ k \in 1..Len(dckpts)
    /\ denoiser_load' = [path |-> k] @@ BuildDenoiser(dckpts[k].file)
    /\ UNCHANGED vocoder_load
    /\ UNCHANGED <<samplerVars, diffusionVars, vocoderVars, parseVars>>
    /\ UNCHANGED <<encodeVars, generateVars, startupVars, scheduleVars, shapeVars>>
    /\ UNCHANGED <<annealVars, preencodeVars, workerVars>>

InitDenoiserHandoff ==
    /\ \E it \in 0..MaxIter, n \in 1..MaxAccum, c \in 1..MaxCkptEvery,
          su \in TrainingSetups :
          dcfg = [iterations |-> it, gradient_accumulation |-> n,
                  checkpoint_every |-> c, base_channels |-> su.base_channels,
                  num_batches |-> 1, vocab |-> su.vocab]
    /\ dpc = "loop"
    /\ global_step = 0
    /\ batch_idx = 0
    /\ trainer = NewTrainer(SCALE)
    /\ dckpts = <<>>
    /\ IdleSampler
    /\ IdleVocoder
    /\ IdleParse
    /\ IdlePipeline

NextDenoiserHandoff ==
    \/ \E g \in GradValues : MicroStep(g)
    \/ FinishTraining
    \/ \E k \in 1..MaxIter : LoadDenoiser(k)

SpecDenoiserHandoff == InitDenoiserHandoff /\ [][NextDenoiserHandoff]_vars

\* the field names of a denoiser checkpoint
DenoiserFields ==
    {"model_state_dict", "ema_state_dict", "text_enc_state_dict",
     "optimizer_state_dict", "vocab", "config", "step"}

\* C21: every denoiser checkpoint holds exactly the fields model weights, EMA
\* shadow weights, conditioning-encoder weights, optimizer state, vocabulary,
\* config and step; inference builds the network from the EMA weights of the
\* loaded checkpoint, and parses prompts and sizes the networks with the
\* vocabulary and config stored in that same checkpoint.
C21_CheckpointFieldsAndEma ==
    /\ \A k \in 1..Len(dckpts) :
          /\ DOMAIN dckpts[k].file = DenoiserFields
          /\ dckpts[k].file.vocab = dcfg.vocab
          /\ dckpts[k].file.config.base_channels = dcfg.base_channels
    /\ denoiser_load.status = "built"
       => LET ckpt == dckpts[denoiser_load.path].file
          IN  /\ denoiser_load.model.state_dict = ckpt.ema_state_dict
              /\ denoiser_load.vocab = ckpt.vocab
              /\ denoiser_load.cfg = ckpt.config
              /\ denoiser_load.model.base_channels = ckpt.config.base_channels
              /\ denoiser_load.text_enc.vocab_size = Len(ckpt.vocab)
              /\ denoiser_load.text_enc.state_dict = ckpt.text_enc_state_dict

C21_Witness ==
    /\ denoiser_load.status = "built"
    /\ Len(dckpts) >= 2
    /\ denoiser_load.path < Len(dckpts)
    /\ LET ckpt == dckpts[denoiser_load.path].file
       IN  /\ ckpt.ema_state_dict # ckpt.model_state_dict
           /\ ckpt.ema_state_dict # dckpts[Len(dckpts)].file.ema_state_dict
           /\ denoiser_load.model.state_dict = ckpt.ema_state_dict
    /\ dcfg.base_channels = 2

(***************************************************************************)
(* Vocoder checkpoints handed to inference: the files train() writes       *)
(* (training/train_vocoder.py) and the vocoder load of generate()          *)
(* (inference/generate.py) and of KickGenerator.setup (modal/kick_worker.py)*)
(***************************************************************************)
\* the key both loaders index the loaded dict with: voc_ckpt["generator"]
InferenceKey == "generator"

\* the dict torch.load returns for a file of checkpoint_dir, as the pair of its
\* key set and its contents
VocoderFile(path) ==
    IF path = "vocoder.pt"
    THEN [keys |-> DOMAIN vdisk.export[1], dict |-> vdisk.export[1]]
    ELSE [keys |-> vdisk.latest[1].fields, dict |-> vdisk.latest[1]]

\* vocoder.load_state_dict(voc_ckpt["generator"]) on the file at path
LoadVocoder(path) ==
    /\ path = "vocoder.pt" => vdisk.export # <<>>
    /\ path = "vocoder_latest.pt" => vdisk.latest # <<>>
    /\ LET f == VocoderFile(path)
       IN  vocoder_load' =
              IF InferenceKey \in f.keys
              THEN [status |-> "loaded", path |-> path, keys |-> f.keys,
                    generator |-> f.dict[InferenceKey]]
              ELSE [status |-> "KeyError", path |-> path, keys |-> f.keys]
    /\ UNCHANGED denoiser_load
    /\ UNCHANGED <<samplerVars, diffusionVars, vocoderVars, parseVars>>
    /\ UNCHANGED <<encodeVars, generateVars, startupVars, scheduleVars, shapeVars>>
    /\ UNCHANGED <<annealVars, preencodeVars, workerVars>>

NextVocoderHandoff ==
    \/ NextVocoder
    \/ \E path \in {"vocoder.pt", "vocoder_latest.pt"} : LoadVocoder(path)

SpecVocoderHandoff == InitVocoder /\ [][NextVocoderHandoff]_vars

\* C24: the export 'vocoder.pt' holds only the generator's weights, and loading
\* it in the inference pipeline never fails on a missing field: the weights
\* are stored under the field name the loaders read.
C24_ExportLoadable ==
    /\ vdisk.export # <<>> => Cardinality(DOMAIN vdisk.export[1]) = 1
    /\ (vocoder_load.status # "none" /\ vocoder_load.path = "vocoder.pt")
       => /\ vocoder_load.status = "loaded"
          /\ InferenceKey \in vocoder_load.keys

(***************************************************************************)
(* Vocoder training killed and restarted: the end-of-epoch block of        *)
(* train() (training/train_vocoder.py) with the write of                   *)
(* 'vocoder_latest.pt' as a step that takes time.  torch.save opens the    *)
(* path for writing, which empties the file, and then writes the archive.  *)
(***************************************************************************)
\* 'vocoder_latest.pt' while torch.save is writing it: no field can be read
TruncatedCheckpoint == [PartialCheckpoint("epoch") EXCEPT !.fields = {}]

\* lines 294-313: both schedulers step, the numbered checkpoint is written if
\* due, and torch.save opens 'vocoder_latest.pt'
BeginSaveLatest ==
    /\ vpc = "epoch_end"
    /\ LET m == [vmem EXCEPT !.sched_g = vmem.sched_g + 1, !.sched_d = vmem.sched_d + 1]
           due == NumberedDue(vmem.epoch, vargs)
       IN  /\ vdisk' = [vdisk EXCEPT
                 !.latest = <<TruncatedCheckpoint>>,
                 !.numbered = IF due
                              THEN vdisk.numbered \cup
                                      {[name |-> vmem.epoch + 1,
                                        ckpt |-> TrainingCheckpoint(m, vmem.epoch)]}
                              ELSE vdisk.numbered]
           /\ vmem' = m
           /\ vrun' = [vrun EXCEPT !.sched_steps = vrun.sched_steps + 1,
                                   !.writes = vrun.writes + (IF due THEN 1 ELSE 0)]
    /\ vpc' = "saving_latest"
    /\ UNCHANGED vargs
    /\ UNCHANGED <<samplerVars, diffusionVars, parseVars, pipelineVars>>

\* lines 313-322 return: the file is complete; the for loop takes the next epoch
FinishSaveLatest ==
    /\ vpc = "saving_latest"
    /\ vdisk' = [vdisk EXCEPT !.latest = <<TrainingCheckpoint(vmem, vmem.epoch)>>]
    /\ vmem' = [vmem EXCEPT !.epoch = vmem.epoch + 1, !.batch = 0]
    /\ vrun' = [vrun EXCEPT !.writes = vrun.writes + 1]
    /\ vpc' = IF vmem.epoch + 1 < vargs.epochs THEN "train" ELSE "export"
    /\ UNCHANGED vargs
    /\ UNCHANGED <<samplerVars, diffusionVars, parseVars, pipelineVars>>

\* the process is killed while torch.save is writing 'vocoder_latest.pt'
KillDuringSave ==
    /\ vpc = "saving_latest"
    /\ vpc' = "stopped"
    /\ vmem' = FreshVocoder
    /\ UNCHANGED <<vargs, vdisk, vrun>>
    /\ UNCHANGED <<samplerVars, diffusionVars, parseVars, pipelineVars>>

\* a fresh checkpoint directory
InitVocoderRestart ==
    /\ \E e \in 1..MaxEpochs, c \in 1..MaxVCkptEvery, b \in 1..MaxVBatches :
          vargs = [epochs |-> e, checkpoint_every |-> c, batches |-> b]
    /\ vpc = "start"
    /\ vdisk = [latest |-> <<>>, numbered |-> {}, export |-> <<>>]
    /\ vmem = FreshVocoder
    /\ vrun = NoRun
    /\ IdleSampler
    /\ IdleDiffusion
    /\ IdleParse
    /\ IdlePipeline

NextVocoderRestart ==
    \/ StartRun
    \/ \E data \in BatchData : TrainBatch(data)
    \/ BeginSaveLatest
    \/ FinishSaveLatest
    \/ Export
    \/ Interrupt
    \/ KillDuringSave

SpecVocoderRestart == InitVocoderRestart /\ [][NextVocoderRestart]_vars

\* C25: under any sequence of interruptions and restarts, a restart that finds
\* 'vocoder_latest.pt' restores exactly the end-of-epoch state it holds and
\* continues at that epoch + 1 (the work of an interrupted epoch is dropped as a
\* whole), and when the run completes, the epochs 0..epochs-1 have been
\* committed once each, with each scheduler stepped once per committed epoch.
C25_RestartFromLastEpoch ==
    /\ vrun.resumed
       => LET ckpt == vrun.from[1]
          IN  /\ ckpt.fields = AllFields
              /\ vpc # "aborted"
              /\ ckpt.sched_g = ckpt.epoch + 1
              /\ ckpt.sched_d = ckpt.epoch + 1
              /\ ckpt.optim_g = (ckpt.epoch + 1) * vargs.batches
              /\ (vrun.train_steps = 0 /\ vrun.sched_steps = 0 /\ VocoderRunning)
                 => /\ \A f \in StateFields : vmem[f] = ckpt[f]
                    /\ vmem.epoch = ckpt.epoch + 1
                    /\ vmem.batch = 0
    /\ vpc = "finished"
       => /\ vdisk.latest[1].epoch = vargs.epochs - 1
          /\ vmem.epoch = vargs.epochs
          /\ vmem.sched_g = vargs.epochs
          /\ vmem.sched_d = vargs.epochs
          /\ vmem.optim_g = vargs.epochs * vargs.batches
          /\ vmem.optim_d = vargs.epochs * vargs.batches

(***************************************************************************)
(* KL annealing: AutoencoderConfig.kl_weight_at_epoch (training/config.py) *)
(* called once per epoch by train() (training/train_autoencoder.py)        *)
(***************************************************************************)
MaxAnneal == 3

MaxKlEpochs == 5

\* values of kl_weight_start and kl_weight_end
KlWeights == {1, 10, SCALE \div 2, SCALE}

\* the start weight held until the anneal is over
kl_weight_at_epoch_unannealed(cfg, epoch) ==
    IF epoch >= cfg.kl_anneal_epochs THEN cfg.kl_weight_end ELSE cfg.kl_weight_start

\* AutoencoderConfig.kl_weight_at_epoch
kl_weight_at_epoch(cfg, epoch) ==
    IF epoch >= cfg.kl_anneal_epochs
    THEN cfg.kl_weight_end
    ELSE LET t == (epoch * SCALE) \div cfg.kl_anneal_epochs
         IN  cfg.kl_weight_start + FxMul(t, cfg.kl_weight_end - cfg.kl_weight_start)

\* the head of one pass of `for epoch in range(cfg.epochs)`
BeginEpoch ==
    /\ kl_epoch >= 0
    /\ kl_epoch < kl_cfg.epochs
    /\ kl_log' = Append(kl_log, kl_weight_at_epoch(kl_cfg, kl_epoch))
    /\ kl_epoch' = kl_epoch + 1
    /\ UNCHANGED kl_cfg
    /\ UNCHANGED <<samplerVars, diffusionVars, vocoderVars, parseVars>>
    /\ UNCHANGED <<encodeVars, generateVars, startupVars, scheduleVars, shapeVars>>
    /\ UNCHANGED <<handoffVars, preencodeVars, workerVars>>

InitAnneal ==
    /\ kl_cfg \in [epochs : 0..MaxKlEpochs, kl_weight_start : KlWeights,
                    kl_weight_end : KlWeights, kl_anneal_epochs : 0..MaxAnneal]
    /\ kl_epoch = 0
    /\ kl_log = <<>>
    /\ IdleSampler
    /\ IdleDiffusion
    /\ IdleVocoder
    /\ IdleParse
    /\ IdleEncode
    /\ IdleGenerate
    /\ IdleStartup
    /\ IdleSchedule
    /\ IdleShapes
    /\ IdleHandoff
    /\ IdlePreEncode
    /\ IdleWorker

NextAnneal == BeginEpoch

SpecAnneal == InitAnneal /\ [][NextAnneal]_vars

\* C22: for kl_anneal_epochs A > 0 and start <= end the weight of epoch e is
\* start + (e/A)*(end - start) for e < A (to the resolution of the arithmetic)
\* and exactly end for e >= A: it is start at epoch 0, never decreases from one
\* epoch to the next and lies in [start, end]; for A = 0 it is end at every epoch.
C22_LinearAnneal ==
    LET a == kl_cfg.kl_anneal_epochs
        lo == kl_cfg.kl_weight_start
        hi == kl_cfg.kl_weight_end
    IN  \A k \in 1..Len(kl_log) :
           LET e == k - 1
               w == kl_log[k]
           IN  /\ a = 0 => w = hi
               /\ (a > 0 /\ lo <= hi)
                  => /\ e >= a => w = hi
                     /\ e < a => /\ a * (w - lo) <= e * (hi - lo)
                                 /\ a * (w - lo + 1) + (a * (hi - lo)) \div SCALE
                                       >= e * (hi - lo)
                     /\ e = 0 => w = lo
                     /\ lo <= w /\ w <= hi
                     /\ k > 1 => kl_log[k - 1] <= w

C22_Witness ==
    /\ kl_cfg.kl_anneal_epochs = MaxAnneal
    /\ kl_cfg.kl_weight_start < kl_cfg.kl_weight_end
    /\ Len(kl_log) > MaxAnneal
    /\ kl_log[1] = kl_cfg.kl_weight_start
    /\ kl_log[1] < kl_log[2]
    /\ kl_log[2] < kl_log[MaxAnneal]
    /\ kl_log[MaxAnneal] < kl_cfg.kl_weight_end
    /\ kl_log[MaxAnneal + 1] = kl_cfg.kl_weight_end

(***************************************************************************)
(* pre_encode_latents (training/train_diffusion.py), run, killed and run   *)
(* again.  The spectrogram files of data_dir are numbered 1..mels in       *)
(* sorted order; a latent file has the number of its spectrogram.          *)
(***************************************************************************)
\* len(existing) > 100
AlreadyEncoded(latents) == Cardinality(latents) > SkipThreshold

\* lines 81-104: the check of latents_dir, then the VAE and the file list
CheckExisting ==
    /\ pe_pc.at = "start"
    /\ pe_pc' = IF AlreadyEncoded(pe_disk.latents)
                THEN [at |-> "returned", next |-> 0]
                ELSE [at |-> "loop", next |-> 1]
    /\ UNCHANGED <<pe_disk, pe_log>>
    /\ UNCHANGED <<samplerVars, diffusionVars, vocoderVars, parseVars>>
    /\ UNCHANGED <<encodeVars, generateVars, startupVars, scheduleVars, shapeVars>>
    /\ UNCHANGED <<handoffVars, annealVars, workerVars>>

\* one pass of `for f in tqdm(mel_files)`: lines 107-113
EncodeFile ==
    /\ pe_pc.at = "loop"
    /\ pe_pc.next <= pe_disk.mels
    /\ IF pe_pc.next \in pe_disk.latents
       THEN UNCHANGED <<pe_disk, pe_log>>
       ELSE /\ pe_disk' = [pe_disk EXCEPT !.latents = @ \cup {pe_pc.next}]
            /\ pe_log' = Append(pe_log, pe_pc.next)
    /\ pe_pc' = [pe_pc EXCEPT !.next = @ + 1]
    /\ UNCHANGED <<samplerVars, diffusionVars, vocoderVars, parseVars>>
    /\ UNCHANGED <<encodeVars, generateVars, startupVars, scheduleVars, shapeVars>>
    /\ UNCHANGED <<handoffVars, annealVars, workerVars>>

\* the loop is exhausted: line 115
FinishEncoding ==
    /\ pe_pc.at = "loop"
    /\ pe_pc.next > pe_disk.mels
    /\ pe_pc' = [at |-> "returned", next |-> 0]
    /\ UNCHANGED <<pe_disk, pe_log>>
    /\ UNCHANGED <<samplerVars, diffusionVars, vocoderVars, parseVars>>
    /\ UNCHANGED <<encodeVars, generateVars, startupVars, scheduleVars, shapeVars>>
    /\ UNCHANGED <<handoffVars, annealVars, workerVars>>

\* the process is killed between two files
KillEncoding ==
    /\ pe_pc.at = "loop"
    /\ pe_pc' = [at |-> "killed", next |-> 0]
    /\ UNCHANGED <<pe_disk, pe_log>>
    /\ UNCHANGED <<samplerVars, diffusionVars, vocoderVars, parseVars>>
    /\ UNCHANGED <<encodeVars, generateVars, startupVars, scheduleVars, shapeVars>>
    /\ UNCHANGED <<handoffVars, annealVars, workerVars>>

\* train() is started again and calls pre_encode_latents: line 147
RunAgain ==
    /\ pe_pc.at \in {"killed", "returned"}
    /\ pe_pc' = [at |-> "start", next |-> 0]
    /\ UNCHANGED <<pe_disk, pe_log>>
    /\ UNCHANGED <<samplerVars, diffusionVars, vocoderVars, parseVars>>
    /\ UNCHANGED <<encodeVars, generateVars, startupVars, scheduleVars, shapeVars>>
    /\ UNCHANGED <<handoffVars, annealVars, workerVars>>

InitPreEncode ==
    /\ \E n \in FileCounts : pe_disk = [mels |-> n, latents |-> {}]
    /\ pe_pc = [at |-> "start", next |-> 0]
    /\ pe_log = <<>>
    /\ IdleSampler
    /\ IdleDiffusion
    /\ IdleVocoder
    /\ IdleParse
    /\ IdleEncode
    /\ IdleGenerate
    /\ IdleStartup
    /\ IdleSchedule
    /\ IdleShapes
    /\ IdleHandoff
    /\ IdleAnneal
    /\ IdleWorker

NextPreEncode ==
    \/ CheckExisting
    \/ EncodeFile
    \/ FinishEncoding
    \/ KillEncoding
    \/ RunAgain

SpecPreEncode == InitPreEncode /\ [][NextPreEncode]_vars

\* C27: after pre_encode_latents returns, every spectrogram file has a latent
\* file of the same name, also when an earlier pass was interrupted part-way
\* and the function is run again; no latent file is written twice.
C27_AllLatentsAfterReturn ==
    /\ pe_pc.at = "returned" => \A f \in 1..pe_disk.mels : f \in pe_disk.latents
    /\ \A i, j \in 1..Len(pe_log) : pe_log[i] = pe_log[j] => i = j

(***************************************************************************)
(* The deployed worker: KickGenerator.generate_kick (modal/kick_worker.py) *)
(* from the vocoder's output to the returned WAV bytes                     *)
(***************************************************************************)
\* step 6: peak = waveform.abs().max(); waveform * (0.95 / peak) when peak > 0
WorkerPostProcess ==
    /\ wk_pc = "vocoded"
    /\ wk_out' = Normalize(wk_in)
    /\ wk_pc' = "normalized"
    /\ UNCHANGED wk_in
    /\ UNCHANGED <<samplerVars, diffusionVars, vocoderVars, parseVars>>
    /\ UNCHANGED <<encodeVars, generateVars, startupVars, scheduleVars, shapeVars>>
    /\ UNCHANGED <<handoffVars, annealVars, preencodeVars>>

\* the samples written to the in-memory WAV file and returned as bytes
WorkerReturn ==
    /\ wk_pc = "normalized"
    /\ wk_pc' = "returned"
    /\ UNCHANGED <<wk_in, wk_out>>
    /\ UNCHANGED <<samplerVars, diffusionVars, vocoderVars, parseVars>>
    /\ UNCHANGED <<encodeVars, generateVars, startupVars, scheduleVars, shapeVars>>
    /\ UNCHANGED <<handoffVars, annealVars, preencodeVars>>

\* the state after step 5 (vocoder or Griffin-Lim) of generate_kick
InitWorker ==
    /\ wk_in \in {w \in RawWaveforms : Len(w) > 0}
    /\ wk_pc = "vocoded"
    /\ wk_out = <<>>
    /\ IdleSampler
    /\ IdleDiffusion
    /\ IdleVocoder
    /\ IdleParse
    /\ IdleEncode
    /\ IdleGenerate
    /\ IdleStartup
    /\ IdleSchedule
    /\ IdleShapes
    /\ IdleHandoff
    /\ IdleAnneal
    /\ IdlePreEncode

NextWorker ==
    \/ WorkerPostProcess
    \/ WorkerReturn

SpecWorker == InitWorker /\ [][NextWorker]_vars

\* C30: for the same vocoder output, generate_kick returns what generate()
\* writes: a waveform of exactly TARGET_SAMPLES samples, trimmed or
\* zero-padded, peak-normalized to 0.95, faded and silenced over the tail.
C30_WorkerMatchesGenerate ==
    wk_pc = "returned"
    => /\ Len(wk_out) = TARGET_SAMPLES
       /\ wk_out = Fade(Normalize(TrimPad(wk_in)))

====
